---- MODULE Spec2Model ----
(***************************************************************************)
(* Camera state of GraphicsTransforms.cpp: the WindowData structure, the   *)
(* GLFW callbacks that mutate it (mouse_callback, scroll_callback), the    *)
(* key-press lambdas of main (reset, camera switches, toggles), the        *)
(* per-frame W/A/S/D movement, the view and projection matrices and the    *)
(* frame loop with its debounced key handlers.                             *)
(*                                                                         *)
(* Numbers.  The state holds integers in these units:                      *)
(*   angles (yaw, pitch, fov)    unit 0.01 degree   (89 deg = 8900)        *)
(*   scroll offsets              unit 0.1           (yoffset 1.0 = 10)     *)
(*   ortho_height_half           unit 0.01          (0.1 = 10, 2.0 = 200)  *)
(*   cursor positions            unit 1 pixel                              *)
(*   camera_pos, near, far       unit 0.001                                *)
(*   frame time                  unit 1 ms                                 *)
(* Vectors and matrices are computed in decimal floating point of eight    *)
(* digits with signed zeros, infinities and not-a-number, as the program   *)
(* computes them in float: see the section float below.                    *)
(* Cameras are indexed 0 and 1 as in the source.                           *)
(***************************************************************************)
EXTENDS Integers, Sequences, FiniteSets, TLC

VARIABLES
    width,                      \* WindowData::width
    height,                     \* WindowData::height
    camera_active_index,        \* WindowData::camera_active_index
    camera_fov_control_index,   \* WindowData::camera_fov_control_index
    view_enable,                \* WindowData::view_enable[2]
    projection_enable,          \* WindowData::projection_enable[2]
    mouse_first,                \* WindowData::mouse_first
    mouse_pos_last,             \* WindowData::mouse_pos_last  <<x, y>>
    yaw,                        \* WindowData::yaw[2]
    pitch,                      \* WindowData::pitch[2]
    camera_pos,                 \* WindowData::camera_pos[2]   <<x, y, z>>
    projection_type,            \* WindowData::projection_type[2]
    ortho_height_half,          \* WindowData::ortho_height_half[2]
    fov,                        \* WindowData::fov[2]
    focus_fresh,                \* history: the window (re)gained input focus and
                                \* no cursor position was reported since
    pc,                         \* main: the place the frame loop is at
    keys_down,                  \* GLFW: the keys glfwGetKey reports pressed
    should_close,               \* GLFW: the window's close flag
    released,                   \* the captured `released` of each debounce handler
    event,                      \* history: the last operation and its inputs
    frames,                     \* history: frames that ran their movement block
    sampled,                    \* history: what each handler's last call sampled
    snapshot,                   \* history: the state the frame's view_projection
                                \* was computed from, until the frame is shown
    camera_render_enable,       \* main: camera_render_enable[2]
    frustum_render_enable       \* main: frustum_render_enable[2]

data ==
    <<width, height, camera_active_index, camera_fov_control_index,
      view_enable, projection_enable, mouse_first, mouse_pos_last,
      yaw, pitch, camera_pos, projection_type, ortho_height_half, fov>>

render == <<camera_render_enable, frustum_render_enable>>

loop == <<pc, keys_down, should_close, released, sampled, snapshot, render>>

vars == <<data, focus_fresh, event, frames, loop>>

----------------------------------------------------------------------------
(* Program constants. *)

cameras_count == 2

Cameras == 0 .. (cameras_count - 1)

\* near[] and far[] in units of 0.001
near == [i \in Cameras |-> 100]

far == [i \in Cameras |-> IF i = 0 THEN 10000 ELSE 50000]

\* 0.1 degree per pixel: the product offset * sensitivity, in tenths of a degree
sensitivity == 1

pitch_min == -8900

pitch_max == 8900

fov_min == 100

fov_max == 9000

\* the 0.1f of std::max(0.1f, height_half_new)
ortho_height_half_min == 10

yaw_initial == [i \in Cameras |-> IF i = 0 THEN -9000 ELSE 0]

pitch_initial == [i \in Cameras |-> IF i = 0 THEN 0 ELSE -3000]

camera_pos_initial ==
    [i \in Cameras |-> IF i = 0 THEN <<0, 0, 1000>> ELSE <<-5000, 3000, 1000>>]

ortho_height_half_initial == [i \in Cameras |-> 200]

fov_initial == [i \in Cameras |-> 4500]

----------------------------------------------------------------------------
(* Bounds of the model and the inputs the environment draws from. *)

\* |yaw| of a camera stays within MaxYaw (more than one full turn, 36000)
MaxYaw == 45000

\* ortho_height_half stays within MaxOrtho
MaxOrtho == 1000

\* at most MaxFrames frames run their movement block
MaxFrames == 1

\* cursor positions reported to mouse_callback
MouseXs == {0, 4000}

MouseYs == {0, 900}

\* cursor positions reported while the cameras are moved: vertical motion
MoveMouseXs == {0}

MoveMouseYs == {0, 890}

\* the keys of the movement block and the frame times, in ms
MoveKeys == {"W", "A", "S", "D"}

FrameTimes == {400}

\* the keys bound to the debounced handlers of the camera state and of the
\* rendering of the camera pyramids and frustums, in the order main calls
\* the handlers
HandlerOrder ==
    <<"1", "2", "Q", "E", "Z", "X", "C", "V", "B", "N", "O", "P", "M", "COMMA">>

HandlerKeys == {HandlerOrder[n] : n \in 1 .. Len(HandlerOrder)}

\* scroll offsets (yoffset), in tenths: -50.0 and 50.0
ScrollOffsets == {-500, 500}

----------------------------------------------------------------------------
(* Pure helpers. *)

\* glm::radians of a value given in tenths of a degree, in angle units
radians(tenths) == 10 * tenths

\* std::clamp(v, lo, hi)
clamp(v, lo, hi) == IF v < lo THEN lo ELSE IF hi < v THEN hi ELSE v

\* std::max(a, b)
max(a, b) == IF a < b THEN b ELSE a

\* the absolute value and the sign of an integer
abs(a) == IF a < 0 THEN -a ELSE a

sign(a) == IF a < 0 THEN -1 ELSE 1

\* the first eight decimal digits of r / d as an integer, 0 <= r < d, by
\* long division
fraction_digits(r, d) ==
    LET r1 == (r * 10) % d
        r2 == (r1 * 10) % d
        r3 == (r2 * 10) % d
        r4 == (r3 * 10) % d
        r5 == (r4 * 10) % d
        r6 == (r5 * 10) % d
        r7 == (r6 * 10) % d
        high == ((r * 10) \div d) * 1000 + ((r1 * 10) \div d) * 100
                + ((r2 * 10) \div d) * 10 + (r3 * 10) \div d
        low == ((r4 * 10) \div d) * 1000 + ((r5 * 10) \div d) * 100
               + ((r6 * 10) \div d) * 10 + (r7 * 10) \div d
    IN  high * 10000 + low

\* the integer square root of n < 2^30, digit by digit in base 32
isqrt(n) ==
    LET fits(r, step) == r * r <= n /\ n < (r + step) * (r + step)
        high == CHOOSE r \in {1024 * d : d \in 0 .. 31} : fits(r, 1024)
        middle == CHOOSE r \in {high + 32 * d : d \in 0 .. 31} : fits(r, 32)
    IN  CHOOSE r \in middle .. middle + 31 : fits(r, 1)

----------------------------------------------------------------------------
(* float.  A float value is a triple <<s, m, e>>, the number s * m * 10^e:  *)
(* s is the sign, 1 or -1, and m a mantissa of eight decimal digits,        *)
(* 10^7 <= m < 10^8.  The mantissas 0, 1 and 2 stand for the values that    *)
(* have no digits: the zero of sign s, the infinity of sign s, and the      *)
(* value that is not a number.  The operations give the results IEEE 754    *)
(* arithmetic gives, rounded to these eight digits.                         *)

nan == <<1, 2, 0>>

infinity(s) == <<s, 1, 0>>

zero(s) == <<s, 0, 0>>

isnan(x) == x[2] = 2

isinf(x) == x[2] = 1

iszero(x) == x[2] = 0

isfinite(x) == ~isnan(x) /\ ~isinf(x)

\* the float s * m * 10^e of a mantissa 0 <= m < 2^31, rounded to eight
\* digits
float(s, m, e) ==
    IF m = 0 THEN zero(s)
    ELSE LET digits == CHOOSE k \in 1 .. 10 : m \div 10 ^ (k - 1) \in 1 .. 9
             unit == 10 ^ (digits - 8)
             kept == m \div unit + (IF 2 * (m % unit) >= unit THEN 1 ELSE 0)
         IN  IF digits <= 8 THEN <<s, m * 10 ^ (8 - digits), e + digits - 8>>
             ELSE IF kept = 100000000 THEN <<s, 10000000, e + digits - 7>>
             ELSE <<s, kept, e + digits - 8>>

\* the float of the integer n in units of 10^e: static_cast<float>, literals
number(n, e) == float(sign(n), abs(n), e)

one == number(1, 0)

two == number(2, 0)

half == number(5, -1)

\* a local constant of the source, const auto v = value: the value is
\* computed once, where it is declared, and rest, the statements after the
\* declaration, use it
local(value, rest(_)) == CHOOSE result \in {rest(v) : v \in {value}} : TRUE

\* -x
neg(x) == IF isnan(x) THEN x ELSE <<-x[1], x[2], x[3]>>

\* x * y
times(x, y) ==
    IF isnan(x) \/ isnan(y) THEN nan
    ELSE IF isinf(x) \/ isinf(y)
    THEN IF iszero(x) \/ iszero(y) THEN nan ELSE infinity(x[1] * y[1])
    ELSE LET xh == x[2] \div 10000
             xl == x[2] % 10000
             yh == y[2] \div 10000
             yl == y[2] % 10000
         IN  float(x[1] * y[1],
                   10 * xh * yh
                   + ((xh * yl + xl * yh) * 10 + (xl * yl) \div 1000) \div 10000,
                   x[3] + y[3] + 7)

\* x / y
over(x, y) ==
    IF isnan(x) \/ isnan(y) THEN nan
    ELSE IF isinf(x) THEN (IF isinf(y) THEN nan ELSE infinity(x[1] * y[1]))
    ELSE IF isinf(y) THEN zero(x[1] * y[1])
    ELSE IF iszero(y) THEN (IF iszero(x) THEN nan ELSE infinity(x[1] * y[1]))
    ELSE float(x[1] * y[1],
               (x[2] \div y[2]) * 100000000
               + fraction_digits(x[2] % y[2], y[2]),
               x[3] - y[3] - 8)

\* x + y
plus(x, y) ==
    IF isnan(x) \/ isnan(y) THEN nan
    ELSE IF isinf(x) THEN (IF isinf(y) /\ x[1] # y[1] THEN nan ELSE x)
    ELSE IF isinf(y) THEN y
    ELSE IF iszero(x)
    THEN (IF iszero(y) THEN zero(IF x[1] = y[1] THEN x[1] ELSE 1) ELSE y)
    ELSE IF iszero(y) THEN x
    ELSE LET big == IF x[3] >= y[3] THEN x ELSE y
             small == IF x[3] >= y[3] THEN y ELSE x
             shift == big[3] - small[3]
             unit == 10 ^ shift
             sum == big[1] * big[2] * 10
                    + (IF shift > 9 THEN 0
                       ELSE small[1] * ((small[2] * 10 + unit \div 2) \div unit))
         IN  float(sign(sum), abs(sum), big[3] - 1)

\* x - y
minus(x, y) == plus(x, neg(y))

\* std::sqrt of x >= 0: the integer square root of the leading digits,
\* improved by two steps of Newton's iteration
sqrt(x) ==
    IF isnan(x) \/ iszero(x) THEN x
    ELSE IF x[1] = -1 THEN nan
    ELSE IF isinf(x) THEN x
    ELSE LET odd == x[3] % 2
             average(y) == times(half, plus(y, over(x, y)))
         IN  local(float(1, isqrt(x[2] * 10 ^ odd), (x[3] - odd) \div 2),
                   LAMBDA first :
             local(average(first), LAMBDA second : average(second)))

\* glm::inversesqrt
inversesqrt(x) == over(one, sqrt(x))

\* |x| <= |t| for finite x and t
magnitude_at_most(x, t) ==
    \/ iszero(x)
    \/ /\ ~iszero(t)
       /\ \/ x[3] < t[3]
          \/ x[3] = t[3] /\ x[2] <= t[2]

\* two floats that differ by at most t
within(x, y, t) ==
    LET difference == minus(x, y)
    IN  isfinite(difference) /\ magnitude_at_most(difference, t)

\* the finite float x in units of 10^-k, rounded to the nearest integer
rounded(x, k) ==
    LET e == x[3] + k
        unit == 10 ^ (-e)
    IN  IF e >= 0 THEN x[1] * x[2] * 10 ^ e
        ELSE IF e < -9 THEN 0
        ELSE x[1] * ((x[2] + unit \div 2) \div unit)

\* 100000000 * sin(k degrees), k = 0 .. 90, at index k + 1
SinTableFine ==
    <<
                0,   1745241,   3489950,   5233596,   6975647,   8715574,  10452846,
         12186934,  13917310,  15643447,  17364818,  19080900,  20791169,  22495105,
         24192190,  25881905,  27563736,  29237170,  30901699,  32556815,  34202014,
         35836795,  37460659,  39073113,  40673664,  42261826,  43837115,  45399050,
         46947156,  48480962,  50000000,  51503807,  52991926,  54463904,  55919290,
         57357644,  58778525,  60181502,  61566148,  62932039,  64278761,  65605903,
         66913061,  68199836,  69465837,  70710678,  71933980,  73135370,  74314483,
         75470958,  76604444,  77714596,  78801075,  79863551,  80901699,  81915204,
         82903757,  83867057,  84804810,  85716730,  86602540,  87461971,  88294759,
         89100652,  89879405,  90630779,  91354546,  92050485,  92718385,  93358043,
         93969262,  94551858,  95105652,  95630476,  96126170,  96592583,  97029573,
         97437006,  97814760,  98162718,  98480775,  98768834,  99026807,  99254615,
         99452190,  99619470,  99756405,  99862953,  99939083,  99984770, 100000000 >>

\* the radians of 0.001 degree, pi / 180000
radians_of_unit == number(17453293, -12)

\* sin and cos of an angle of r units of 0.001 degree, 0 <= r < 1000, by
\* their power series: t - t^3 / 6 and 1 - t^2 / 2 + t^4 / 24
sin_small(r) ==
    local(times(number(r, 0), radians_of_unit), LAMBDA t :
    local(times(t, t), LAMBDA square :
        times(t, minus(one, over(square, number(6, 0))))))

cos_small(r) ==
    local(times(number(r, 0), radians_of_unit), LAMBDA t :
    local(times(t, t), LAMBDA square :
        plus(minus(one, over(square, two)),
             over(times(square, square), number(24, 0)))))

\* sin of an angle in [0, 90 deg], in units of 0.001 degree: the table at
\* the whole degrees k, and sin(k) cos(r) + cos(k) sin(r) between them
SinQuadrant(x) ==
    LET k == x \div 1000
        r == x % 1000
        sin_k == number(SinTableFine[k + 1], -8)
        cos_k == number(SinTableFine[91 - k], -8)
    IN  IF r = 0 THEN sin_k
        ELSE plus(times(sin_k, cos_small(r)), times(cos_k, sin_small(r)))

\* std::sin, std::cos, std::tan of an angle in units of 0.001 degree
sin(x) ==
    LET m == x % 360000
    IN  IF m <= 90000 THEN SinQuadrant(m)
        ELSE IF m <= 180000 THEN SinQuadrant(180000 - m)
        ELSE IF m <= 270000 THEN neg(SinQuadrant(m - 180000))
        ELSE neg(SinQuadrant(360000 - m))

cos(x) == sin(x + 90000)

tan(x) == over(sin(x), cos(x))

\* an angle of the state, in units of 0.01 degree, as the argument of sin
\* and cos, and the half of it, fovy / 2
angle(x) == 10 * x

half_angle(x) == 5 * x

\* glm::dot, glm::cross, scalar * vector, +, - and glm::normalize of vec3
dot(a, b) == plus(plus(times(a[1], b[1]), times(a[2], b[2])), times(a[3], b[3]))

cross(a, b) ==
    <<minus(times(a[2], b[3]), times(b[2], a[3])),
      minus(times(a[3], b[1]), times(b[3], a[1])),
      minus(times(a[1], b[2]), times(b[1], a[2]))>>

scale(k, v) == <<times(k, v[1]), times(k, v[2]), times(k, v[3])>>

add(a, b) == <<plus(a[1], b[1]), plus(a[2], b[2]), plus(a[3], b[3])>>

sub(a, b) == <<minus(a[1], b[1]), minus(a[2], b[2]), minus(a[3], b[3])>>

normalize(v) == scale(inversesqrt(dot(v, v)), v)

\* a position of the state, in units of 0.001, as a vec3, and a vec3 as a
\* position of the state
position(p) == <<number(p[1], -3), number(p[2], -3), number(p[3], -3)>>

stored(v) == <<rounded(v[1], 3), rounded(v[2], 3), rounded(v[3], 3)>>

\* the world up vector
up == <<zero(1), one, zero(1)>>

----------------------------------------------------------------------------
(* The state after construction: main, the WindowData initializer.         *)
(* mouse_pos_last has no initializer and is value-initialized to (0, 0).   *)

Init ==
    /\ width = 800
    /\ height = 600
    /\ camera_active_index = 0
    /\ camera_fov_control_index = 0
    /\ view_enable = [i \in Cameras |-> i = 1]
    /\ projection_enable = [i \in Cameras |-> i = 1]
    /\ mouse_first = TRUE
    /\ mouse_pos_last = <<0, 0>>
    /\ yaw = [i \in Cameras |-> yaw_initial[i]]
    /\ pitch = [i \in Cameras |-> pitch_initial[i]]
    /\ camera_pos = [i \in Cameras |-> camera_pos_initial[i]]
    /\ projection_type = [i \in Cameras |-> "perspective"]
    /\ ortho_height_half = [i \in Cameras |-> ortho_height_half_initial[i]]
    /\ fov = [i \in Cameras |-> fov_initial[i]]
    /\ focus_fresh = TRUE
    /\ frames = 0
    /\ pc = "test"
    /\ keys_down = {}
    /\ should_close = FALSE
    /\ released = [k \in HandlerKeys |-> TRUE]
    /\ sampled = [k \in HandlerKeys |-> FALSE]
    /\ snapshot = <<>>
    /\ camera_render_enable = [i \in Cameras |-> FALSE]
    /\ frustum_render_enable = [i \in Cameras |-> FALSE]
    /\ event = [op |-> "start", arg |-> <<>>, first |-> TRUE, fresh |-> TRUE,
                last |-> <<0, 0>>]

----------------------------------------------------------------------------
(* GLFW callbacks. *)

\* the mouse_first block: mouse_pos_last as the rest of the call sees it
mouse_reference_stale(pos) == mouse_pos_last

mouse_reference(pos) == IF mouse_first THEN pos ELSE mouse_pos_last

\* offset = pos - data->mouse_pos_last
mouse_offset_abs(pos, last) == pos

mouse_offset(pos, last) == <<pos[1] - last[1], pos[2] - last[2]>>

\* pitch_delta = glm::radians(offset.y * -sensitivity)
mouse_pitch_delta_unflipped(offset) == radians(offset[2] * sensitivity)

mouse_pitch_delta(offset) == radians(offset[2] * (-sensitivity))

\* pitch += pitch_delta, then std::clamp(pitch, pitch_min, pitch_max)
mouse_pitch_new_unclamped(p, pitch_delta) == p + pitch_delta

mouse_pitch_new(p, pitch_delta) == clamp(p + pitch_delta, pitch_min, pitch_max)

\* if (!data->view_enable[data->camera_active_index]) return;
mouse_view_disabled_never == FALSE

mouse_view_disabled == ~view_enable[camera_active_index]

\* mouse_callback(window, xpos_in, ypos_in)
mouse_callback(xpos_in, ypos_in) ==
    LET pos == <<xpos_in, ypos_in>>
        last == mouse_reference(pos)
        a == camera_active_index
        offset == mouse_offset(pos, last)
        yaw_delta == radians(offset[1] * sensitivity)
        pitch_delta == mouse_pitch_delta(offset)
    IN  /\ mouse_first' = FALSE
        /\ IF mouse_view_disabled
           THEN /\ mouse_pos_last' = last
                /\ UNCHANGED <<yaw, pitch>>
           ELSE /\ mouse_pos_last' = pos
                /\ yaw' = [yaw EXCEPT ![a] = @ + yaw_delta]
                /\ pitch' = [pitch EXCEPT ![a] = mouse_pitch_new(@, pitch_delta)]
        /\ UNCHANGED <<width, height, camera_active_index, camera_fov_control_index,
                       view_enable, projection_enable, camera_pos, projection_type,
                       ortho_height_half, fov>>

\* if (!data->projection_enable[data->camera_fov_control_index]) return;
scroll_accepted_always == TRUE

scroll_accepted == projection_enable[camera_fov_control_index]

\* case perspective: fov_new = fov - radians(yoffset), clamped to [fov_min, fov_max]
scroll_fov_new_no_max(f, yoffset) == max(fov_min, f - radians(yoffset))

scroll_fov_new_open_min(f, yoffset) ==
    IF f - radians(yoffset) <= fov_min THEN f
    ELSE clamp(f - radians(yoffset), fov_min, fov_max)

scroll_fov_new_zoom_reversed(f, yoffset) ==
    clamp(f + radians(yoffset), fov_min, fov_max)

scroll_fov_new(f, yoffset) ==
    LET fov_delta == -radians(yoffset)
        fov_new == f + fov_delta
    IN  clamp(fov_new, fov_min, fov_max)

\* case orthographic: height_half_new = h - yoffset / 10.0, at least 0.1
\* (yoffset in tenths, so yoffset / 10.0 in hundredths is yoffset)
scroll_height_half_new_capped(h, yoffset) ==
    clamp(h - yoffset, ortho_height_half_min, 2 * ortho_height_half_initial[0])

scroll_height_half_new(h, yoffset) ==
    LET height_delta == -yoffset
        height_half_new == h + height_delta
    IN  max(ortho_height_half_min, height_half_new)

\* scroll_callback(window, xoffset, yoffset); yoffset in tenths
scroll_callback(yoffset) ==
    LET c == camera_fov_control_index
    IN  IF ~scroll_accepted
        THEN UNCHANGED data
        ELSE /\ IF projection_type[c] = "perspective"
                THEN /\ fov' = [fov EXCEPT ![c] = scroll_fov_new(@, yoffset)]
                     /\ UNCHANGED ortho_height_half
                ELSE /\ ortho_height_half' =
                            [ortho_height_half EXCEPT
                                ![c] = scroll_height_half_new(@, yoffset)]
                     /\ UNCHANGED fov
             /\ UNCHANGED <<width, height, camera_active_index,
                            camera_fov_control_index, view_enable, projection_enable,
                            mouse_first, mouse_pos_last, yaw, pitch, camera_pos,
                            projection_type>>

----------------------------------------------------------------------------
(* The lambdas main binds to keys. *)

\* a reset that also puts the projection type back to perspective
reset_camera_with_type(i) ==
    /\ yaw' = [yaw EXCEPT ![i] = yaw_initial[i]]
    /\ pitch' = [pitch EXCEPT ![i] = pitch_initial[i]]
    /\ camera_pos' = [camera_pos EXCEPT ![i] = camera_pos_initial[i]]
    /\ ortho_height_half' = [ortho_height_half EXCEPT ![i] = ortho_height_half_initial[i]]
    /\ fov' = [fov EXCEPT ![i] = fov_initial[i]]
    /\ projection_type' = [projection_type EXCEPT ![i] = "perspective"]
    /\ UNCHANGED <<width, height, camera_active_index, camera_fov_control_index,
                   view_enable, projection_enable, mouse_first, mouse_pos_last>>

\* reset_camera(i)
reset_camera(i) ==
    /\ yaw' = [yaw EXCEPT ![i] = yaw_initial[i]]
    /\ pitch' = [pitch EXCEPT ![i] = pitch_initial[i]]
    /\ camera_pos' = [camera_pos EXCEPT ![i] = camera_pos_initial[i]]
    /\ ortho_height_half' = [ortho_height_half EXCEPT ![i] = ortho_height_half_initial[i]]
    /\ fov' = [fov EXCEPT ![i] = fov_initial[i]]
    /\ UNCHANGED <<width, height, camera_active_index, camera_fov_control_index,
                   view_enable, projection_enable, mouse_first, mouse_pos_last,
                   projection_type>>

handle_camera_0_reset == reset_camera(0)

handle_camera_1_reset == reset_camera(1)

\* Q moves the fov control along with the active camera
handle_camera_switch_with_control ==
    /\ camera_active_index' = (camera_active_index + 1) % cameras_count
    /\ camera_fov_control_index' = (camera_active_index + 1) % cameras_count
    /\ UNCHANGED <<width, height, view_enable, projection_enable, mouse_first,
                   mouse_pos_last, yaw, pitch, camera_pos, projection_type,
                   ortho_height_half, fov>>

handle_camera_switch ==
    /\ camera_active_index' = (camera_active_index + 1) % cameras_count
    /\ UNCHANGED <<width, height, camera_fov_control_index, view_enable,
                   projection_enable, mouse_first, mouse_pos_last, yaw, pitch,
                   camera_pos, projection_type, ortho_height_half, fov>>

handle_camera_fov_control_switch ==
    /\ camera_fov_control_index' = (camera_fov_control_index + 1) % cameras_count
    /\ UNCHANGED <<width, height, camera_active_index, view_enable,
                   projection_enable, mouse_first, mouse_pos_last, yaw, pitch,
                   camera_pos, projection_type, ortho_height_half, fov>>

\* a switch that puts fov back to its startup value
projection_switch_resets_fov(i) ==
    /\ projection_type' =
           [projection_type EXCEPT
               ![i] = IF @ = "orthographic" THEN "perspective" ELSE "orthographic"]
    /\ fov' = [fov EXCEPT ![i] = fov_initial[i]]
    /\ UNCHANGED <<width, height, camera_active_index, camera_fov_control_index,
                   view_enable, projection_enable, mouse_first, mouse_pos_last,
                   yaw, pitch, camera_pos, ortho_height_half>>

\* the switch statement of handle_camera_<i>_projection_switch
projection_switch(i) ==
    /\ projection_type' =
           [projection_type EXCEPT
               ![i] = IF @ = "orthographic" THEN "perspective" ELSE "orthographic"]
    /\ UNCHANGED <<width, height, camera_active_index, camera_fov_control_index,
                   view_enable, projection_enable, mouse_first, mouse_pos_last,
                   yaw, pitch, camera_pos, ortho_height_half, fov>>

handle_camera_0_projection_switch == projection_switch(0)

handle_camera_1_projection_switch == projection_switch(1)

\* create_debounce_key_press_handler_bool_switcher(window_data.view_enable[i])
view_enable_switch(i) ==
    /\ view_enable' = [view_enable EXCEPT ![i] = ~@]
    /\ UNCHANGED <<width, height, camera_active_index, camera_fov_control_index,
                   projection_enable, mouse_first, mouse_pos_last, yaw, pitch,
                   camera_pos, projection_type, ortho_height_half, fov>>

handle_view_0_enable == view_enable_switch(0)

handle_view_1_enable == view_enable_switch(1)

\* create_debounce_key_press_handler_bool_switcher(window_data.projection_enable[i])
projection_enable_switch(i) ==
    /\ projection_enable' = [projection_enable EXCEPT ![i] = ~@]
    /\ UNCHANGED <<width, height, camera_active_index, camera_fov_control_index,
                   view_enable, mouse_first, mouse_pos_last, yaw, pitch,
                   camera_pos, projection_type, ortho_height_half, fov>>

handle_projection_0_enable == projection_enable_switch(0)

handle_projection_1_enable == projection_enable_switch(1)

\* create_debounce_key_press_handler_bool_switcher(camera_render_enable[i])
camera_render_enable_switch(i) ==
    /\ camera_render_enable' = [camera_render_enable EXCEPT ![i] = ~@]
    /\ UNCHANGED <<data, frustum_render_enable>>

handle_camera_0_render_enable_switch == camera_render_enable_switch(0)

handle_camera_1_render_enable_switch == camera_render_enable_switch(1)

\* create_debounce_key_press_handler_bool_switcher(frustum_render_enable[i])
frustum_render_enable_switch(i) ==
    /\ frustum_render_enable' = [frustum_render_enable EXCEPT ![i] = ~@]
    /\ UNCHANGED <<data, camera_render_enable>>

handle_frustum_0_render_enable_switch == frustum_render_enable_switch(0)

handle_frustum_1_render_enable_switch == frustum_render_enable_switch(1)

----------------------------------------------------------------------------
(* WindowData::calculate_camera_front and the W/A/S/D block of the frame. *)

\* the front vector with sin(yaw) and cos(yaw) exchanged
calculate_camera_front_yaw_swapped(i) ==
    LET y == angle(yaw[i])
        p == angle(pitch[i])
        sy == sin(y)
        cy == cos(y)
        sp == sin(p)
        cp == cos(p)
    IN  local(<<times(sy, cp), sp, times(cy, cp)>>, LAMBDA front : normalize(front))

calculate_camera_front(i) ==
    LET y == angle(yaw[i])
        p == angle(pitch[i])
        sy == sin(y)
        cy == cos(y)
        sp == sin(p)
        cp == cos(p)
    IN  local(<<times(cy, cp), sp, times(sy, cp)>>, LAMBDA front : normalize(front))

\* glm::mat4{1.0f}: matrices are tuples of four columns, as in glm
mat4_identity ==
    <<<<one, zero(1), zero(1), zero(1)>>,
      <<zero(1), one, zero(1), zero(1)>>,
      <<zero(1), zero(1), one, zero(1)>>,
      <<zero(1), zero(1), zero(1), one>>>>

\* glm::lookAt (right-handed)
lookAt(eye, center, up_dir) ==
    local(normalize(sub(center, eye)), LAMBDA f :
    local(normalize(cross(f, up_dir)), LAMBDA s :
    local(cross(s, f), LAMBDA u :
        <<<<s[1], u[1], neg(f[1]), zero(1)>>,
          <<s[2], u[2], neg(f[2]), zero(1)>>,
          <<s[3], u[3], neg(f[3]), zero(1)>>,
          <<neg(dot(s, eye)), neg(dot(u, eye)), dot(f, eye), one>>>>)))

\* glm::ortho (right-handed, clip z in [-1, 1])
ortho(left, right, bottom, top, z_near, z_far) ==
    <<<<over(two, minus(right, left)), zero(1), zero(1), zero(1)>>,
      <<zero(1), over(two, minus(top, bottom)), zero(1), zero(1)>>,
      <<zero(1), zero(1), over(neg(two), minus(z_far, z_near)), zero(1)>>,
      <<neg(over(plus(right, left), minus(right, left))),
        neg(over(plus(top, bottom), minus(top, bottom))),
        neg(over(plus(z_far, z_near), minus(z_far, z_near))),
        one>>>>

\* glm::perspective (right-handed, clip z in [-1, 1]); fovy in units of
\* 0.01 degree
perspective(fovy, aspect, z_near, z_far) ==
    local(tan(half_angle(fovy)), LAMBDA tan_half_fovy :
        <<<<over(one, times(aspect, tan_half_fovy)), zero(1), zero(1), zero(1)>>,
          <<zero(1), over(one, tan_half_fovy), zero(1), zero(1)>>,
          <<zero(1), zero(1), neg(over(plus(z_far, z_near), minus(z_far, z_near))),
            neg(one)>>,
          <<zero(1), zero(1),
            neg(over(times(times(two, z_far), z_near), minus(z_far, z_near))),
            zero(1)>>>>)

\* glm: mat4 * vec4
transform(m, v) ==
    LET row(r) == plus(plus(plus(times(m[1][r], v[1]), times(m[2][r], v[2])),
                            times(m[3][r], v[3])),
                       times(m[4][r], v[4]))
    IN  <<row(1), row(2), row(3), row(4)>>

\* the view matrix is skipped when the camera's projection is disabled
view_applied_by_projection(i) == projection_enable[i]

\* calculate_view: view_enable[i]
view_applied(i) == view_enable[i]

\* WindowData::calculate_view
calculate_view(i) ==
    IF ~view_applied(i) THEN mat4_identity
    ELSE local(calculate_camera_front(i), LAMBDA front :
         local(position(camera_pos[i]), LAMBDA pos :
         local(add(pos, front), LAMBDA center :
             lookAt(pos, center, up))))

\* the width of the visible area ignores the aspect ratio
ortho_width_half_square(h, aspect_ratio) == h

\* calculate_projection: w = h * aspect_ratio
ortho_width_half(h, aspect_ratio) == times(h, aspect_ratio)

\* static_cast<float>(width) / height: not a number for 0 / 0, infinite
\* for a width > 0 and a height of 0
aspect_ratio_of(w, h) == over(number(w, 0), number(h, 0))

\* WindowData::calculate_projection: the matrix a call returns; whether the
\* call returns at all in a build with assertions is projection_asserts
calculate_projection(i) ==
    IF ~projection_enable[i] THEN mat4_identity
    ELSE local(aspect_ratio_of(width, height), LAMBDA aspect_ratio :
             IF projection_type[i] = "orthographic"
             THEN local(number(ortho_height_half[i], -2), LAMBDA h :
                  local(ortho_width_half(h, aspect_ratio), LAMBDA w :
                      ortho(neg(w), w, neg(h), h,
                            number(near[i], -3), number(far[i], -3))))
             ELSE perspective(fov[i], aspect_ratio,
                              number(near[i], -3), number(far[i], -3)))

\* static_cast<float>(n) of an int n >= 0, as the integer it equals: n
\* rounded to 24 significant bits, a tie to the even mantissa; the result
\* is <<mantissa, unit>>, the float mantissa * unit, unit a power of 2
binary_float(n) ==
    LET bits == CHOOSE k \in 0 .. 31 :
                    IF k = 0 THEN n = 0 ELSE n \div 2 ^ (k - 1) = 1
        unit == IF bits <= 24 THEN 1 ELSE 2 ^ (bits - 24)
        mantissa == n \div unit
        below == n % unit
        round_up == 2 * below > unit \/ (2 * below = unit /\ mantissa % 2 = 1)
    IN  <<IF round_up THEN mantissa + 1 ELSE mantissa, unit>>

\* static_cast<float>(w) / h == std::numeric_limits<float>::epsilon(), that
\* is 2^-23: the quotient of two floats is 2^-23 only when it is so
\* exactly, float(h) = 2^23 * float(w), which needs |w| <= 256, a float of
\* its own, and w and h of one sign
aspect_ratio_is_epsilon(w, h) ==
    /\ w # 0
    /\ sign(w) = sign(h)
    /\ abs(w) <= 256
    /\ LET f == binary_float(abs(h))
           part == 8388608 \div f[2]
       IN  f[1] % part = 0 /\ f[1] \div part = abs(w)

\* glm::perspective: assert(abs(aspect - epsilon) > 0) holds; it fails for
\* the aspect ratio 0.0f / 0, which is not a number, and for an aspect
\* ratio equal to epsilon
perspective_assertion(w, h) ==
    /\ ~isnan(aspect_ratio_of(w, h))
    /\ ~aspect_ratio_is_epsilon(w, h)

\* calculate_projection(i) reaches the assertion of glm::perspective and
\* the assertion fails: a build with assertions aborts there
projection_asserts(i) ==
    /\ projection_enable[i]
    /\ projection_type[i] = "perspective"
    /\ ~perspective_assertion(width, height)

\* glm: mat4 * mat4, the columns of b transformed by a
multiply(a, b) ==
    <<transform(a, b[1]), transform(a, b[2]), transform(a, b[3]),
      transform(a, b[4])>>

\* glm::inverse, a sub-determinant: m[a][b] * m[c][d] - m[c][b] * m[a][d],
\* the indices counted from 0 as in the source
coefficient(m, a, b, c, d) ==
    minus(times(m[a + 1][b + 1], m[c + 1][d + 1]),
          times(m[c + 1][b + 1], m[a + 1][d + 1]))

\* glm::inverse, a column of cofactors: (v1 * f1 - v2 * f2 + v3 * f3) * sign
cofactor_column(v1, f1, v2, f2, v3, f3, signs) ==
    LET entry(k) == times(plus(minus(times(v1[k], f1[k]), times(v2[k], f2[k])),
                               times(v3[k], f3[k])),
                          signs[k])
    IN  <<entry(1), entry(2), entry(3), entry(4)>>

\* glm::inverse, the matrix Inverse before its division by the determinant
cofactors(m) ==
    LET Coef00 == coefficient(m, 2, 2, 3, 3)
        Coef02 == coefficient(m, 1, 2, 3, 3)
        Coef03 == coefficient(m, 1, 2, 2, 3)
        Coef04 == coefficient(m, 2, 1, 3, 3)
        Coef06 == coefficient(m, 1, 1, 3, 3)
        Coef07 == coefficient(m, 1, 1, 2, 3)
        Coef08 == coefficient(m, 2, 1, 3, 2)
        Coef10 == coefficient(m, 1, 1, 3, 2)
        Coef11 == coefficient(m, 1, 1, 2, 2)
        Coef12 == coefficient(m, 2, 0, 3, 3)
        Coef14 == coefficient(m, 1, 0, 3, 3)
        Coef15 == coefficient(m, 1, 0, 2, 3)
        Coef16 == coefficient(m, 2, 0, 3, 2)
        Coef18 == coefficient(m, 1, 0, 3, 2)
        Coef19 == coefficient(m, 1, 0, 2, 2)
        Coef20 == coefficient(m, 2, 0, 3, 1)
        Coef22 == coefficient(m, 1, 0, 3, 1)
        Coef23 == coefficient(m, 1, 0, 2, 1)
        Fac0 == <<Coef00, Coef00, Coef02, Coef03>>
        Fac1 == <<Coef04, Coef04, Coef06, Coef07>>
        Fac2 == <<Coef08, Coef08, Coef10, Coef11>>
        Fac3 == <<Coef12, Coef12, Coef14, Coef15>>
        Fac4 == <<Coef16, Coef16, Coef18, Coef19>>
        Fac5 == <<Coef20, Coef20, Coef22, Coef23>>
        Vec0 == <<m[2][1], m[1][1], m[1][1], m[1][1]>>
        Vec1 == <<m[2][2], m[1][2], m[1][2], m[1][2]>>
        Vec2 == <<m[2][3], m[1][3], m[1][3], m[1][3]>>
        Vec3 == <<m[2][4], m[1][4], m[1][4], m[1][4]>>
        SignA == <<one, neg(one), one, neg(one)>>
        SignB == <<neg(one), one, neg(one), one>>
    IN  <<cofactor_column(Vec1, Fac0, Vec2, Fac1, Vec3, Fac2, SignA),
          cofactor_column(Vec0, Fac0, Vec2, Fac3, Vec3, Fac4, SignB),
          cofactor_column(Vec0, Fac1, Vec1, Fac3, Vec3, Fac5, SignA),
          cofactor_column(Vec0, Fac2, Vec1, Fac4, Vec2, Fac5, SignB)>>

\* glm::inverse, Dot1: the determinant, from column 0 of m and row 0 of
\* the cofactors
determinant_of(m, cofactors_m) ==
    plus(plus(times(m[1][1], cofactors_m[1][1]), times(m[1][2], cofactors_m[2][1])),
         plus(times(m[1][3], cofactors_m[3][1]), times(m[1][4], cofactors_m[4][1])))

\* glm::inverse: the cofactors times 1 / determinant
inverse(m) ==
    local(cofactors(m), LAMBDA Inverse :
    local(over(one, determinant_of(m, Inverse)), LAMBDA OneOverDeterminant :
        LET column(c) == <<times(Inverse[c][1], OneOverDeterminant),
                           times(Inverse[c][2], OneOverDeterminant),
                           times(Inverse[c][3], OneOverDeterminant),
                           times(Inverse[c][4], OneOverDeterminant)>>
        IN  <<column(1), column(2), column(3), column(4)>>))

\* main: view_projection = projection * view of the active camera
view_projection ==
    local(calculate_view(camera_active_index), LAMBDA view :
    local(calculate_projection(camera_active_index), LAMBDA projection :
        multiply(projection, view)))

\* the model matrix with the two inverses in the other order
frustum_model_projection_first(i) ==
    local(calculate_view(i), LAMBDA camera_view :
    local(calculate_projection(i), LAMBDA camera_projection :
    local(inverse(camera_view), LAMBDA view_inv :
    local(inverse(camera_projection), LAMBDA projection_inv :
        multiply(projection_inv, view_inv)))))

\* main, frustum rendering: model = view_inv * projection_inv of camera i
frustum_model(i) ==
    local(calculate_view(i), LAMBDA camera_view :
    local(calculate_projection(i), LAMBDA camera_projection :
    local(inverse(camera_view), LAMBDA view_inv :
    local(inverse(camera_projection), LAMBDA projection_inv :
        multiply(view_inv, projection_inv)))))

\* main, frustum rendering: mvp = view_projection * model
frustum_mvp(i) ==
    local(view_projection, LAMBDA camera_view_projection :
    local(frustum_model(i), LAMBDA model :
        multiply(camera_view_projection, model)))

\* main: camera_right = glm::cross(camera_front, up), used as computed
camera_right(camera_front) == cross(camera_front, up)

\* main: camera_speed = 2.5f * time_delta_s; time_delta in ms
camera_speed(time_delta) == times(number(25, -1), number(time_delta, -3))

\* camera_pos[i] after the four key tests, in the order W, S, A, D;
\* time_delta in ms, keys the set of keys glfwGetKey reports pressed
moved_position(i, keys, time_delta) ==
    local(calculate_camera_front(camera_active_index), LAMBDA front :
    local(camera_right(front), LAMBDA right :
    local(camera_speed(time_delta), LAMBDA speed :
    local(position(camera_pos[i]), LAMBDA p0 :
    local(IF "W" \in keys THEN add(p0, scale(speed, front)) ELSE p0, LAMBDA p1 :
    local(IF "S" \in keys THEN sub(p1, scale(speed, front)) ELSE p1, LAMBDA p2 :
    local(IF "A" \in keys THEN sub(p2, scale(speed, right)) ELSE p2, LAMBDA p3 :
    local(IF "D" \in keys THEN add(p3, scale(speed, right)) ELSE p3, LAMBDA p4 :
        stored(p4)))))))))

move_camera(i, keys, time_delta) ==
    /\ camera_pos' = [camera_pos EXCEPT ![i] = moved_position(i, keys, time_delta)]
    /\ UNCHANGED <<width, height, camera_active_index, camera_fov_control_index,
                   view_enable, projection_enable, mouse_first, mouse_pos_last,
                   yaw, pitch, projection_type, ortho_height_half, fov>>

\* the movement gated by the active camera's view_enable, as mouse_callback is
movement_view_gated(keys, time_delta) ==
    IF view_enable[camera_active_index]
    THEN move_camera(camera_active_index, keys, time_delta)
    ELSE UNCHANGED data

\* main, "FPS-camera control": front and right of the active camera, then
\* camera_pos[camera_active_index] moved for each of W, S, A, D pressed
movement(keys, time_delta) ==
    move_camera(camera_active_index, keys, time_delta)

----------------------------------------------------------------------------
(* Events: one operation of the program together with the history record:  *)
(* the operation and its inputs and, for a cursor report, mouse_first,     *)
(* focus_fresh and mouse_pos_last as they were before it.                  *)

Record(op, arg) ==
    event' = [op |-> op, arg |-> arg, first |-> FALSE, fresh |-> FALSE,
              last |-> <<0, 0>>]

RecordMouse(pos) ==
    event' = [op |-> "mouse", arg |-> pos, first |-> mouse_first,
              fresh |-> focus_fresh, last |-> mouse_pos_last]

YawInBounds == \A i \in Cameras : yaw[i] \in (-MaxYaw) .. MaxYaw

OrthoInBounds == \A i \in Cameras : ortho_height_half[i] <= MaxOrtho

\* the cursor position callback fires with position <<x, y>>
MouseEvent(x, y) ==
    /\ mouse_callback(x, y)
    /\ YawInBounds'
    /\ focus_fresh' = FALSE
    /\ UNCHANGED loop
    /\ UNCHANGED frames
    /\ RecordMouse(<<x, y>>)

\* the scroll callback fires with vertical offset d
ScrollEvent(d) ==
    /\ scroll_callback(d)
    /\ OrthoInBounds'
    /\ UNCHANGED <<focus_fresh, frames>>
    /\ UNCHANGED loop
    /\ Record("scroll", <<d>>)

\* one frame's movement block runs with the given keys held
MoveEvent(keys, time_delta) ==
    /\ frames < MaxFrames
    /\ movement(keys, time_delta)
    /\ frames' = frames + 1
    /\ UNCHANGED loop
    /\ UNCHANGED focus_fresh
    /\ Record("move", <<keys, time_delta>>)

\* the window loses and regains input focus: main installs no focus callback
\* (only the framebuffer-size, cursor-position and scroll callbacks), so the
\* program state is untouched
FocusEvent ==
    /\ UNCHANGED <<data, frames>>
    /\ UNCHANGED loop
    /\ focus_fresh' = TRUE
    /\ Record("focus", <<>>)

\* a key press fires the lambda bound to it
KeyEvent(name, f) ==
    /\ f
    /\ UNCHANGED loop
    /\ UNCHANGED <<focus_fresh, frames>>
    /\ Record(name, <<>>)

Key1 == KeyEvent("1", handle_camera_0_reset)

Key2 == KeyEvent("2", handle_camera_1_reset)

KeyQ == KeyEvent("Q", handle_camera_switch)

KeyE == KeyEvent("E", handle_camera_fov_control_switch)

KeyZ == KeyEvent("Z", handle_camera_0_projection_switch)

KeyX == KeyEvent("X", handle_camera_1_projection_switch)

KeyC == KeyEvent("C", handle_view_0_enable)

KeyV == KeyEvent("V", handle_view_1_enable)

KeyB == KeyEvent("B", handle_projection_0_enable)

KeyN == KeyEvent("N", handle_projection_1_enable)

----------------------------------------------------------------------------
(* Specifications. *)

\* cursor input: mouse moves, resets, active-camera switch, view toggles
NextMouse ==
    \/ \E x \in MouseXs, y \in MouseYs : MouseEvent(x, y)
    \/ FocusEvent
    \/ Key1
    \/ Key2
    \/ KeyQ
    \/ KeyC
    \/ KeyV

SpecMouse == Init /\ [][NextMouse]_vars

\* scroll input: scroll events, resets, fov-control switch, projection
\* type switches, projection toggles, active-camera switch
NextScroll ==
    \/ \E d \in ScrollOffsets : ScrollEvent(d)
    \/ Key1
    \/ Key2
    \/ KeyQ
    \/ KeyE
    \/ KeyZ
    \/ KeyX
    \/ KeyB
    \/ KeyN

SpecScroll == Init /\ [][NextScroll]_vars

\* movement: frames with W/A/S/D held, vertical cursor motion, active-camera
\* switch, view and projection toggles of camera 0 (the camera whose flags
\* are off at startup)
NextMove ==
    \/ \E keys \in SUBSET MoveKeys, t \in FrameTimes : MoveEvent(keys, t)
    \/ \E x \in MoveMouseXs, y \in MoveMouseYs : MouseEvent(x, y)
    \/ KeyQ
    \/ KeyC
    \/ KeyB

SpecMove == Init /\ [][NextMove]_vars

----------------------------------------------------------------------------
(* The frame loop of main: the loop test, the Escape test, the debounced   *)
(* handlers in the order main calls them, the movement block, the          *)
(* computation of view_projection, the draw calls, glfwSwapBuffers and      *)
(* glfwPollEvents, inside which GLFW updates its key states and its close   *)
(* flag and calls the installed callbacks.                                  *)

\* the keys whose state changes while the loop runs
FrameKeys == {"ESC", "Q", "C", "W", "COMMA"}

\* the framebuffer sizes GLFW reports: the startup size, the size of a
\* minimized window, and a size whose aspect ratio is 2^-23
FrameSizes == {<<800, 600>>, <<0, 0>>, <<1, 8388608>>}

\* the cursor positions delivered while the loop runs
FrameCursors == {<<0, 890>>}

\* the scroll offsets delivered while the loop runs, in tenths
FrameScrollOffsets == {500}

\* the lambda each debounced handler wraps
handler_lambda(key) ==
    CASE key = "1" -> handle_camera_0_reset /\ UNCHANGED render
      [] key = "2" -> handle_camera_1_reset /\ UNCHANGED render
      [] key = "Q" -> handle_camera_switch /\ UNCHANGED render
      [] key = "E" -> handle_camera_fov_control_switch /\ UNCHANGED render
      [] key = "Z" -> handle_camera_0_projection_switch /\ UNCHANGED render
      [] key = "X" -> handle_camera_1_projection_switch /\ UNCHANGED render
      [] key = "C" -> handle_view_0_enable /\ UNCHANGED render
      [] key = "V" -> handle_view_1_enable /\ UNCHANGED render
      [] key = "B" -> handle_projection_0_enable /\ UNCHANGED render
      [] key = "N" -> handle_projection_1_enable /\ UNCHANGED render
      [] key = "O" -> handle_camera_0_render_enable_switch
      [] key = "P" -> handle_frustum_0_render_enable_switch
      [] key = "M" -> handle_camera_1_render_enable_switch
      [] key = "COMMA" -> handle_frustum_1_render_enable_switch

\* glfwGetKey(window, key) == GLFW_PRESS
key_pressed(key) == key \in keys_down

\* the handler runs f on every call that samples the key pressed
handler_fires_while_pressed(key) == key_pressed(key)

\* the handler of create_debounce_key_press_handler runs f
handler_fires(key) == key_pressed(key) /\ released[key]

\* one call of the callable create_debounce_key_press_handler returns
debounce_key_press_handler(key) ==
    IF key_pressed(key)
    THEN IF handler_fires(key)
         THEN /\ handler_lambda(key)
              /\ released' = [released EXCEPT ![key] = FALSE]
         ELSE UNCHANGED <<data, render, released>>
    ELSE /\ released' = [released EXCEPT ![key] = TRUE]
         /\ UNCHANGED <<data, render>>

\* framebuffer_size_callback
framebuffer_size_callback(w, h) ==
    /\ width' = w
    /\ height' = h
    /\ UNCHANGED <<camera_active_index, camera_fov_control_index, view_enable,
                   projection_enable, mouse_first, mouse_pos_last, yaw, pitch,
                   camera_pos, projection_type, ortho_height_half, fov>>

\* while (!glfwWindowShouldClose(window))
loop_condition == ~should_close

\* GLFW calls the callbacks while the frame is drawn, too
polling_while_drawing == pc \in {"draw", "poll"}

\* GLFW delivers events, and calls the callbacks, inside glfwPollEvents
polling == pc = "poll"

\* the loop test: the next iteration starts, or the loop is left
LoopTest ==
    /\ pc = "test"
    /\ pc' = IF loop_condition THEN "escape" ELSE "exit"
    /\ UNCHANGED <<data, focus_fresh, frames, keys_down, should_close, released,
                   sampled, snapshot>>
    /\ UNCHANGED render
    /\ Record("test", <<>>)

\* "Quit after pressing Escape"
EscapeStep ==
    /\ pc = "escape"
    /\ should_close' = IF key_pressed("ESC") THEN TRUE ELSE should_close
    /\ pc' = HandlerOrder[1]
    /\ UNCHANGED <<data, focus_fresh, frames, keys_down, released, sampled, snapshot>>
    /\ UNCHANGED render
    /\ Record("escape", <<>>)

\* the call of the n-th debounced handler with its key
HandlerStep(n) ==
    LET key == HandlerOrder[n]
    IN  /\ pc = key
        /\ debounce_key_press_handler(key)
        /\ sampled' = [sampled EXCEPT ![key] = key_pressed(key)]
        /\ pc' = IF n < Len(HandlerOrder) THEN HandlerOrder[n + 1] ELSE "move"
        /\ UNCHANGED <<focus_fresh, frames, keys_down, should_close, snapshot>>
        /\ Record("handler", <<key, key_pressed(key), sampled[key]>>)

\* the movement block, with the keys GLFW reports pressed
MoveStep(time_delta) ==
    /\ pc = "move"
    /\ movement(keys_down \cap MoveKeys, time_delta)
    /\ frames' = IF keys_down \cap MoveKeys = {} THEN frames ELSE frames + 1
    /\ pc' = "compute"
    /\ UNCHANGED <<focus_fresh, keys_down, should_close, released, sampled,
                   snapshot>>
    /\ UNCHANGED render
    /\ Record("movement", <<time_delta>>)

\* view, projection and view_projection of the active camera are computed;
\* when the assertion of glm::perspective fails, the step goes on in a
\* build without assertions (NDEBUG) and the process aborts in one with them
ComputeStep ==
    /\ pc = "compute"
    /\ snapshot' = data
    /\ \/ /\ pc' = "draw"
          /\ Record("compute", <<>>)
       \/ /\ projection_asserts(camera_active_index)
          /\ pc' = "abort"
          /\ Record("abort", <<camera_active_index>>)
    /\ UNCHANGED <<data, focus_fresh, frames, keys_down, should_close, released,
                   sampled, render>>

\* the draw calls: the quads, then the frustum of each camera with
\* frustum_render_enable and the pyramid of each camera with
\* camera_render_enable, each with calculate_view(i) and
\* calculate_projection(i) computed anew; a failing assertion of
\* glm::perspective aborts the process in a build with assertions
DrawStep ==
    /\ pc = "draw"
    /\ \/ /\ pc' = "swap"
          /\ Record("draw", <<>>)
       \/ \E i \in Cameras :
             /\ frustum_render_enable[i] \/ camera_render_enable[i]
             /\ projection_asserts(i)
             /\ pc' = "abort"
             /\ Record("abort", <<i>>)
    /\ UNCHANGED <<data, focus_fresh, frames, keys_down, should_close, released,
                   sampled, snapshot, render>>

\* glfwSwapBuffers: the frame is shown
SwapStep ==
    /\ pc = "swap"
    /\ snapshot' = <<>>
    /\ pc' = "poll"
    /\ UNCHANGED <<data, focus_fresh, frames, keys_down, should_close, released,
                   sampled>>
    /\ UNCHANGED render
    /\ Record("swap", <<>>)

\* a framebuffer-size event with size <<w, h>>
ResizeEvent(w, h) ==
    /\ framebuffer_size_callback(w, h)
    /\ UNCHANGED <<focus_fresh, frames, loop>>
    /\ Record("resize", <<w, h>>)

\* glfwPollEvents delivers a cursor position
PollMouse(x, y) == polling /\ MouseEvent(x, y)

\* glfwPollEvents delivers a scroll offset
PollScroll(d) == polling /\ ScrollEvent(d)

\* glfwPollEvents delivers a framebuffer size
PollResize(w, h) == polling /\ ResizeEvent(w, h)

\* the frames with a movement key held are at most MaxFrames
MovementInBounds == keys_down \cap MoveKeys = {} \/ frames < MaxFrames

\* glfwPollEvents takes a key press or release: the key's state flips
PollKey(key) ==
    /\ polling
    /\ key \in MoveKeys \ keys_down => frames < MaxFrames
    /\ keys_down' = IF key \in keys_down THEN keys_down \ {key}
                    ELSE keys_down \cup {key}
    /\ UNCHANGED <<data, focus_fresh, frames, pc, should_close, released,
                   sampled, snapshot>>
    /\ UNCHANGED render
    /\ Record("key", <<key>>)

\* glfwPollEvents takes a close request: GLFW sets the close flag
PollClose ==
    /\ polling
    /\ should_close' = TRUE
    /\ UNCHANGED <<data, focus_fresh, frames, pc, keys_down, released, sampled,
                   snapshot>>
    /\ UNCHANGED render
    /\ Record("close", <<>>)

\* glfwPollEvents returns
PollReturn ==
    /\ pc = "poll"
    /\ MovementInBounds
    /\ pc' = "test"
    /\ UNCHANGED <<data, focus_fresh, frames, keys_down, should_close, released,
                   sampled, snapshot>>
    /\ UNCHANGED render
    /\ Record("polled", <<>>)

NextFrame ==
    \/ LoopTest
    \/ EscapeStep
    \/ \E n \in 1 .. Len(HandlerOrder) : HandlerStep(n)
    \/ \E t \in FrameTimes : MoveStep(t)
    \/ ComputeStep
    \/ DrawStep
    \/ SwapStep
    \/ \E pos \in FrameCursors : PollMouse(pos[1], pos[2])
    \/ \E d \in FrameScrollOffsets : PollScroll(d)
    \/ \E size \in FrameSizes : PollResize(size[1], size[2])
    \/ \E key \in FrameKeys : PollKey(key)
    \/ PollClose
    \/ PollReturn

SpecFrame == Init /\ [][NextFrame]_vars

----------------------------------------------------------------------------
(* The functions of WindowData applied to sampled camera states: one       *)
(* camera takes a sampled pose, or a sampled lens and framebuffer size, the *)
(* other its startup state.                                                 *)

\* yaw and pitch samples, in 0.01 deg
SampleYaws == {-9000, 0, 9000}

SamplePitches == {-3000, 0, 8900}

\* a position away from the startup positions
SamplePositions == {<<1000, 2000, -3000>>}

\* fov samples in 0.01 deg, ortho_height_half samples in 0.01
SampleFovs == {fov_min, 4500, fov_max}

SampleOrthos == {ortho_height_half_min, 200, MaxOrtho}

\* framebuffer sizes: landscape, portrait, a minimized window, and a size
\* whose aspect ratio is 2^-23
SampleSizes == {<<800, 600>>, <<600, 800>>, <<0, 0>>, <<1, 8388608>>}

\* eye-space depths, as multiples of 0.001: -near[i], -far[i] and in between
SampleDepths(i) == {-near[i], -5000, -far[i]}

\* poses <<yaw, pitch, camera_pos>> and lenses <<framebuffer size,
\* projection_type, ortho_height_half, fov>> of camera c: the sampled ones
\* and the ones at startup
SamplePoses(c) ==
    {<<y, p, pos>> : y \in SampleYaws, p \in SamplePitches,
                     pos \in SamplePositions \cup {camera_pos_initial[c]}}

SampleLenses(c) ==
    {<<size, t, h, f>> : size \in SampleSizes,
                         t \in {"perspective", "orthographic"},
                         h \in SampleOrthos, f \in SampleFovs}

StartPose(c) == <<yaw_initial[c], pitch_initial[c], camera_pos_initial[c]>>

StartLens(c) ==
    <<<<800, 600>>, "perspective", ortho_height_half_initial[c], fov_initial[c]>>

\* a sampled pose with the startup lens, or the startup pose with a
\* sampled lens
Samples(c) ==
    (SamplePoses(c) \X {StartLens(c)}) \cup ({StartPose(c)} \X SampleLenses(c))

InitSample ==
    \E c \in Cameras : \E sample \in Samples(c) :
      LET pose == sample[1]
          lens == sample[2]
      IN
        /\ width = lens[1][1]
        /\ height = lens[1][2]
        /\ camera_active_index = 0
        /\ camera_fov_control_index = 0
        /\ \E b \in BOOLEAN :
              view_enable = [[i \in Cameras |-> i = 1] EXCEPT ![c] = b]
        /\ \E b \in BOOLEAN :
              projection_enable = [[i \in Cameras |-> i = 1] EXCEPT ![c] = b]
        /\ mouse_first = TRUE
        /\ mouse_pos_last = <<0, 0>>
        /\ yaw = [yaw_initial EXCEPT ![c] = pose[1]]
        /\ pitch = [pitch_initial EXCEPT ![c] = pose[2]]
        /\ camera_pos = [camera_pos_initial EXCEPT ![c] = pose[3]]
        /\ projection_type = [[i \in Cameras |-> "perspective"] EXCEPT ![c] = lens[2]]
        /\ ortho_height_half = [ortho_height_half_initial EXCEPT ![c] = lens[3]]
        /\ fov = [fov_initial EXCEPT ![c] = lens[4]]
        /\ focus_fresh = TRUE
        /\ frames = 0
        /\ pc = "test"
        /\ keys_down = {}
        /\ should_close = FALSE
        /\ released = [k \in HandlerKeys |-> TRUE]
        /\ sampled = [k \in HandlerKeys |-> FALSE]
        /\ snapshot = <<>>
        /\ camera_render_enable = [i \in Cameras |-> FALSE]
        /\ frustum_render_enable = [i \in Cameras |-> FALSE]
        /\ event = [op |-> "start", arg |-> <<>>, first |-> TRUE, fresh |-> TRUE,
                    last |-> <<0, 0>>]

\* calculate_camera_front(i) is called
FrontEvent(i) ==
    /\ pc # "abort"
    /\ Record("front", <<i, calculate_camera_front(i)>>)
    /\ UNCHANGED <<data, focus_fresh, frames, loop>>

\* calculate_view(i) is called
ViewEvent(i) ==
    /\ pc # "abort"
    /\ Record("view", <<i, calculate_view(i)>>)
    /\ UNCHANGED <<data, focus_fresh, frames, loop>>

\* calculate_projection(i) is called: it returns, or, when the assertion
\* of glm::perspective fails in a build with assertions, the process aborts
ProjectionEvent(i) ==
    /\ pc # "abort"
    /\ \/ /\ Record("projection", <<i, calculate_projection(i)>>)
          /\ pc' = pc
       \/ /\ projection_asserts(i)
          /\ Record("abort", <<i>>)
          /\ pc' = "abort"
    /\ UNCHANGED <<data, focus_fresh, frames, keys_down, should_close, released,
                   sampled, snapshot, render>>

\* the eye-space point <<sx * w, sy * h, z>> of camera i, w and h the half
\* extents calculate_projection gives glm::ortho
ortho_corner(i, sx, sy, z) ==
    LET h == number(ortho_height_half[i], -2)
        w == times(h, aspect_ratio_of(width, height))
    IN  <<times(number(sx, 0), w), times(number(sy, 0), h), number(z, -3), one>>

\* calculate_projection(i) of an orthographic camera is applied to a corner
\* of its visible area at depth z
ClipEvent(i, sx, sy, z) ==
    /\ pc # "abort"
    /\ projection_enable[i]
    /\ projection_type[i] = "orthographic"
    /\ Record("clip", <<i, <<sx, sy, z>>,
                        transform(calculate_projection(i), ortho_corner(i, sx, sy, z))>>)
    /\ UNCHANGED <<data, focus_fresh, frames, loop>>

NextSample ==
    \/ \E i \in Cameras : FrontEvent(i)
    \/ \E i \in Cameras : ViewEvent(i)
    \/ \E i \in Cameras : ProjectionEvent(i)
    \/ \E i \in Cameras, sx \in {-1, 1}, sy \in {-1, 1} :
          \E z \in SampleDepths(i) : ClipEvent(i, sx, sy, z)

SpecSample == InitSample /\ [][NextSample]_vars

----------------------------------------------------------------------------
(* The frustum rendering of main in sampled states: the flags and          *)
(* projection types of both cameras vary, one camera takes a sampled pose   *)
(* and has its frustum rendered (key O or P was pressed).                   *)

\* sampled poses: yaw and pitch in 0.01 deg, position in 0.001
FrustumPoses ==
    {<<4500, -3000, <<1000, 2000, -3000>> >>, <<-9000, 4500, <<0, 0, 3000>> >>}

\* sampled lenses: projection type, fov in 0.01 deg, ortho_height_half in 0.01
FrustumLenses ==
    {<<"perspective", fov_min, 100>>, <<"perspective", 4500, 100>>,
     <<"perspective", fov_max, 100>>,
     <<"orthographic", 4500, ortho_height_half_min>>,
     <<"orthographic", 4500, 200>>, <<"orthographic", 4500, MaxOrtho>>}

\* framebuffer sizes: landscape, portrait, and a minimized window
FrustumSizes == {<<800, 600>>, <<600, 800>>, <<0, 0>>}

InitFrustum ==
    \E c \in Cameras, size \in FrustumSizes, pose \in FrustumPoses,
       lens \in FrustumLenses :
        /\ width = size[1]
        /\ height = size[2]
        /\ camera_active_index \in Cameras
        /\ camera_fov_control_index = 0
        /\ view_enable \in [Cameras -> BOOLEAN]
        /\ projection_enable \in [Cameras -> BOOLEAN]
        /\ mouse_first = TRUE
        /\ mouse_pos_last = <<0, 0>>
        /\ yaw = [yaw_initial EXCEPT ![c] = pose[1]]
        /\ pitch = [pitch_initial EXCEPT ![c] = pose[2]]
        /\ camera_pos = [camera_pos_initial EXCEPT ![c] = pose[3]]
        /\ projection_type = [[i \in Cameras |-> "perspective"] EXCEPT ![c] = lens[1]]
        /\ fov = [fov_initial EXCEPT ![c] = lens[2]]
        /\ ortho_height_half = [ortho_height_half_initial EXCEPT ![c] = lens[3]]
        /\ focus_fresh = TRUE
        /\ frames = 0
        /\ pc = "test"
        /\ keys_down = {}
        /\ should_close = FALSE
        /\ released = [k \in HandlerKeys |-> TRUE]
        /\ sampled = [k \in HandlerKeys |-> FALSE]
        /\ snapshot = <<>>
        /\ camera_render_enable = [i \in Cameras |-> FALSE]
        /\ frustum_render_enable = [i \in Cameras |-> i = c]
        /\ event = [op |-> "start", arg |-> <<>>, first |-> TRUE, fresh |-> TRUE,
                    last |-> <<0, 0>>]

\* main, frustum rendering, the loop body for camera i: skipped without
\* frustum_render_enable[i]; model and mvp are computed and uploaded, or,
\* when the assertion of glm::perspective fails under calculate_projection(i)
\* in a build with assertions, the process aborts
FrustumEvent(i) ==
    /\ pc # "abort"
    /\ frustum_render_enable[i]
    /\ \/ /\ Record("frustum", <<i, frustum_model(i), frustum_mvp(i)>>)
          /\ pc' = pc
       \/ /\ projection_asserts(i)
          /\ Record("abort", <<i>>)
          /\ pc' = "abort"
    /\ UNCHANGED <<data, focus_fresh, frames, keys_down, should_close, released,
                   sampled, snapshot, render>>

NextFrustum == \E i \in Cameras : FrustumEvent(i)

SpecFrustum == InitFrustum /\ [][NextFrustum]_vars

----------------------------------------------------------------------------
(* The key lambdas fired from states in which both cameras have been moved, *)
(* turned and zoomed; each press records the state it found.                *)

\* camera states <<yaw, pitch, camera_pos, ortho_height_half, fov>> reached
\* by mouse, movement and scroll input
KeyCameraStates ==
    {<<40000, 8900, <<1000, 2000, -3000>>, 10, 100>>,
     <<-4500, -3000, <<-5000, 3000, 2000>>, 300, 9000>>}

InitKeys ==
    \E s \in [Cameras -> KeyCameraStates] :
        /\ width = 800
        /\ height = 600
        /\ camera_active_index = 0
        /\ camera_fov_control_index = 0
        /\ view_enable = [i \in Cameras |-> i = 1]
        /\ projection_enable = [i \in Cameras |-> i = 1]
        /\ mouse_first = FALSE
        /\ mouse_pos_last = <<4000, 900>>
        /\ yaw = [i \in Cameras |-> s[i][1]]
        /\ pitch = [i \in Cameras |-> s[i][2]]
        /\ camera_pos = [i \in Cameras |-> s[i][3]]
        /\ projection_type = [i \in Cameras |-> "perspective"]
        /\ ortho_height_half = [i \in Cameras |-> s[i][4]]
        /\ fov = [i \in Cameras |-> s[i][5]]
        /\ focus_fresh = FALSE
        /\ frames = 0
        /\ pc = "test"
        /\ keys_down = {}
        /\ should_close = FALSE
        /\ released = [k \in HandlerKeys |-> TRUE]
        /\ sampled = [k \in HandlerKeys |-> FALSE]
        /\ snapshot = <<>>
        /\ camera_render_enable = [i \in Cameras |-> FALSE]
        /\ frustum_render_enable = [i \in Cameras |-> FALSE]
        /\ event = [op |-> "start", arg |-> <<>>, first |-> FALSE, fresh |-> FALSE,
                    last |-> <<0, 0>>]

\* a press of key fires its lambda; the event keeps the state before it
PressEvent(key) ==
    /\ handler_lambda(key)
    /\ UNCHANGED <<pc, keys_down, should_close, released, sampled, snapshot>>
    /\ UNCHANGED <<focus_fresh, frames>>
    /\ Record(key, data)

NextKeys == \E key \in HandlerKeys : PressEvent(key)

SpecKeys == InitKeys /\ [][NextKeys]_vars

----------------------------------------------------------------------------
(* Properties of the cursor and scroll callbacks. *)

\* the camera a scroll event does not address
OtherCamera(c) == 1 - c

\* C1: in every reachable state the pitch of each of the two cameras lies
\* in [-89 deg, 89 deg].
C1_PitchInRange ==
    \A i \in Cameras : -8900 <= pitch[i] /\ pitch[i] <= 8900

\* C1 witness: a mouse move was applied to the active camera and drove its
\* pitch into the upper clamp.
C1_Witness ==
    /\ event.op = "mouse"
    /\ view_enable[camera_active_index]
    /\ event.arg[2] < event.last[2]
    /\ pitch[camera_active_index] = 8900

\* C2: the fieldOfView of each camera is never below 1 deg and never above
\* 90 deg.
C2_FovInRange ==
    \A i \in Cameras : 100 <= fov[i] /\ fov[i] <= 9000

\* C2 witness: a scroll-up event on the fov-controlled perspective camera
\* left its fov at 90 deg.
C2_Witness ==
    /\ event.op = "scroll"
    /\ event.arg[1] < 0
    /\ projection_enable[camera_fov_control_index]
    /\ projection_type[camera_fov_control_index] = "perspective"
    /\ fov[camera_fov_control_index] = 9000

\* C3 as stated: the range is half-open, fov is strictly greater than 1 deg
\* (and at most 90 deg) in every reachable state.
C3_FovAboveMin ==
    \A i \in Cameras : 100 < fov[i] /\ fov[i] <= 9000

\* C3 amended: the range is closed, [1 deg, 90 deg]: an accepted perspective
\* scroll whose result fov - d is at or below 1 deg stores exactly 1 deg, one
\* whose result is at or above 90 deg stores exactly 90 deg, and any other
\* result is stored as it is.
C3_FovRangeClosed ==
    [][event'.op = "scroll"
       /\ projection_enable[camera_fov_control_index]
       /\ projection_type[camera_fov_control_index] = "perspective"
       => LET c == camera_fov_control_index
              target == fov[c] - 10 * event'.arg[1]
          IN  /\ target <= 100 => fov'[c] = 100
              /\ target >= 9000 => fov'[c] = 9000
              /\ (100 < target /\ target < 9000) => fov'[c] = target]_vars

\* C3 witness: a scroll-down event stored exactly 1 deg.
C3_Witness ==
    /\ event.op = "scroll"
    /\ event.arg[1] > 0
    /\ projection_enable[camera_fov_control_index]
    /\ projection_type[camera_fov_control_index] = "perspective"
    /\ fov[camera_fov_control_index] = 100

\* C4: orthoHalfHeight of each camera is at least 0.1 in every reachable
\* state, and nothing bounds it from above: an accepted orthographic scroll
\* with a negative offset d raises it by exactly -d/10, whatever its value.
C4_OrthoMinNoMax ==
    /\ [](\A i \in Cameras : ortho_height_half[i] >= 10)
    /\ [][event'.op = "scroll"
          /\ event'.arg[1] < 0
          /\ projection_enable[camera_fov_control_index]
          /\ projection_type[camera_fov_control_index] = "orthographic"
          => LET c == camera_fov_control_index
             IN  ortho_height_half'[c] = ortho_height_half[c] - event'.arg[1]]_vars

\* C4 witness: scroll events raised the orthoHalfHeight of the fov-controlled
\* orthographic camera to more than three times its startup value.
C4_Witness ==
    /\ event.op = "scroll"
    /\ event.arg[1] < 0
    /\ projection_enable[camera_fov_control_index]
    /\ projection_type[camera_fov_control_index] = "orthographic"
    /\ ortho_height_half[camera_fov_control_index] > 600

\* C5: a scroll event leaves fov and orthoHalfHeight of the camera that is
\* not at camera_fov_control_index unchanged, and leaves the whole state
\* unchanged when projection_enable of the fov-controlled camera is false.
C5_ScrollFrame ==
    [][event'.op = "scroll"
       => LET c == camera_fov_control_index
              o == OtherCamera(c)
          IN  /\ fov'[o] = fov[o]
              /\ ortho_height_half'[o] = ortho_height_half[o]
              /\ ~projection_enable[c] => UNCHANGED data]_vars

\* C5 witness: a scroll event arrived while the fov-controlled camera had its
\* projection disabled and the other camera, enabled, was the active one.
C5_Witness ==
    /\ event.op = "scroll"
    /\ ~projection_enable[camera_fov_control_index]
    /\ projection_enable[OtherCamera(camera_fov_control_index)]
    /\ camera_active_index = OtherCamera(camera_fov_control_index)

\* C6: an accepted scroll event with offset d sets fov to
\* clamp(fov - d deg, 1 deg, 90 deg) and keeps orthoHalfHeight when the
\* fov-controlled camera is perspective, sets orthoHalfHeight to
\* max(0.1, orthoHalfHeight - d/10) and keeps fov when it is orthographic,
\* and changes nothing else.
C6_ScrollEffect ==
    [][event'.op = "scroll" /\ projection_enable[camera_fov_control_index]
       => LET c == camera_fov_control_index
              d == event'.arg[1]
              f == fov[c] - 10 * d
              h == ortho_height_half[c] - d
          IN  /\ IF projection_type[c] = "perspective"
                 THEN /\ fov'[c] = IF f < 100 THEN 100 ELSE IF f > 9000 THEN 9000 ELSE f
                      /\ UNCHANGED ortho_height_half
                 ELSE /\ ortho_height_half'[c] = IF h < 10 THEN 10 ELSE h
                      /\ UNCHANGED fov
              /\ UNCHANGED <<yaw, pitch, camera_pos, projection_type,
                             camera_active_index, camera_fov_control_index>>]_vars

\* C6 witness: an accepted scroll event moved the fov of a perspective camera
\* to a value strictly inside the range, different from the startup value.
C6_Witness ==
    /\ event.op = "scroll"
    /\ projection_enable[camera_fov_control_index]
    /\ projection_type[camera_fov_control_index] = "perspective"
    /\ fov[camera_fov_control_index] \notin {100, 4500, 9000}

\* C7 as stated: the first mouse-move call after input focus is acquired or
\* re-acquired records the reported position and changes no yaw or pitch.
C7_FirstMoveAfterFocus ==
    [][event'.op = "mouse" /\ focus_fresh
       => /\ mouse_pos_last' = event'.arg
          /\ yaw' = yaw
          /\ pitch' = pitch]_vars

\* C7 amended: the first mouse-move call after startup (mouse_first still
\* set) records the reported position, clears mouse_first and changes no yaw
\* or pitch, whatever position it reports.
C7_FirstMoveAfterStart ==
    [][event'.op = "mouse" /\ mouse_first
       => /\ mouse_pos_last' = event'.arg
          /\ ~mouse_first'
          /\ yaw' = yaw
          /\ pitch' = pitch]_vars

\* C7 witness: the first call reported a position away from the origin in
\* both axes while the active camera's view was enabled.
C7_Witness ==
    /\ event.op = "mouse"
    /\ event.first
    /\ view_enable[camera_active_index]
    /\ event.arg[1] # 0
    /\ event.arg[2] # 0

\* C8: an applied mouse move with cursor offset (dx, dy) sets the active
\* camera's yaw to yaw + 0.1*dx deg and its pitch to
\* clamp(pitch - 0.1*dy deg, -89 deg, 89 deg), and leaves the other camera's
\* yaw and pitch, both positions, fov, orthoHalfHeight, projection types,
\* flags and indices unchanged.
C8_MouseEffect ==
    [][event'.op = "mouse" /\ view_enable[camera_active_index]
       => LET a == camera_active_index
              o == OtherCamera(a)
              ref == IF mouse_first THEN event'.arg ELSE mouse_pos_last
              dx == event'.arg[1] - ref[1]
              dy == event'.arg[2] - ref[2]
              p == pitch[a] - 10 * dy
          IN  /\ yaw'[a] = yaw[a] + 10 * dx
              /\ pitch'[a] = IF p < -8900 THEN -8900 ELSE IF p > 8900 THEN 8900 ELSE p
              /\ yaw'[o] = yaw[o]
              /\ pitch'[o] = pitch[o]
              /\ UNCHANGED <<camera_pos, fov, ortho_height_half, projection_type,
                             view_enable, projection_enable, camera_active_index,
                             camera_fov_control_index>>]_vars

\* C8 witness: an applied move with the cursor going down and right lowered
\* the pitch of the active camera to a value inside the range.
C8_Witness ==
    /\ event.op = "mouse"
    /\ ~event.first
    /\ view_enable[camera_active_index]
    /\ event.arg[1] > event.last[1]
    /\ event.arg[2] > event.last[2]
    /\ pitch[camera_active_index] > -8900
    /\ pitch[camera_active_index] < 0

\* C9: a mouse-move call that reports the last recorded position leaves yaw
\* and pitch of both cameras unchanged.
C9_ZeroDelta ==
    [][event'.op = "mouse" /\ event'.arg = mouse_pos_last
       => yaw' = yaw /\ pitch' = pitch]_vars

\* C9 witness: a later call repeated the recorded position, away from the
\* origin, with the active camera's view enabled and its pitch at the clamp.
C9_Witness ==
    /\ event.op = "mouse"
    /\ ~event.first
    /\ event.arg = event.last
    /\ event.arg[1] # 0
    /\ event.arg[2] # 0
    /\ view_enable[camera_active_index]
    /\ pitch[camera_active_index] = -8900

----------------------------------------------------------------------------
(* Properties of the movement block. *)

\* C10: a frame's W/A/S/D movement leaves the position of the non-active
\* camera unchanged, and changes the position of the active camera whenever
\* exactly one of W, S or exactly one of A, D is held, whether or not that
\* camera's view_enable or projection_enable is set.
C10_MovementFrame ==
    [][event'.op = "move"
       => LET a == camera_active_index
              o == OtherCamera(a)
              keys == event'.arg[1]
              forward == ("W" \in keys) # ("S" \in keys)
              strafe == ("A" \in keys) # ("D" \in keys)
          IN  /\ camera_pos'[o] = camera_pos[o]
              /\ (forward \/ strafe) => camera_pos'[a] # camera_pos[a]
              /\ UNCHANGED <<camera_active_index, view_enable, projection_enable>>]_vars

\* C10 witness: a frame with W and D held moved camera 0, the active one,
\* while its view and projection were disabled (its pitch had been changed
\* by the mouse before), and camera 1 stayed at its startup position.
C10_Witness ==
    /\ event.op = "move"
    /\ event.arg[1] = {"W", "D"}
    /\ camera_active_index = 0
    /\ ~view_enable[0]
    /\ ~projection_enable[0]
    /\ pitch[0] # 0
    /\ camera_pos[0] # camera_pos_initial[0]
    /\ camera_pos[1] = camera_pos_initial[1]

\* glm::length
length(v) == sqrt(dot(v, v))

\* two lengths that differ by at most 0.005
SameLength(a, b) == within(a, b, number(5, -3))

\* C11: a frame's strafe step (A or D alone) displaces the active camera by
\* a vector of length camera_speed, for every pitch of that camera, as the
\* forward/back step (W or S alone) does.
C11_StrafeLength ==
    [][event'.op = "move" /\ event'.arg[1] \in {{"W"}, {"S"}, {"A"}, {"D"}}
       => LET a == camera_active_index
              step == sub(position(camera_pos'[a]), position(camera_pos[a]))
          IN  SameLength(length(step), camera_speed(event'.arg[2]))]_vars

\* C11, the forward/back half, which holds: W or S alone displaces the
\* active camera by a vector of length camera_speed.
C11_ForwardLength ==
    [][event'.op = "move" /\ event'.arg[1] \in {{"W"}, {"S"}}
       => LET a == camera_active_index
              step == sub(position(camera_pos'[a]), position(camera_pos[a]))
          IN  SameLength(length(step), camera_speed(event'.arg[2]))]_vars

----------------------------------------------------------------------------
(* Properties of the camera indices. *)

\* C13: camera_active_index and camera_fov_control_index are each 0 or 1 in
\* every state; Q flips the active index and changes nothing else, E flips
\* the fov-control index and changes nothing else, so the two indices vary
\* independently.
C13_CameraIndices ==
    /\ [](camera_active_index \in {0, 1} /\ camera_fov_control_index \in {0, 1})
    /\ [][event'.op = "Q"
          => /\ camera_active_index' = 1 - camera_active_index
             /\ UNCHANGED <<width, height, camera_fov_control_index, view_enable,
                            projection_enable, mouse_first, mouse_pos_last, yaw,
                            pitch, camera_pos, projection_type,
                            ortho_height_half, fov>>]_vars
    /\ [][event'.op = "E"
          => /\ camera_fov_control_index' = 1 - camera_fov_control_index
             /\ UNCHANGED <<width, height, camera_active_index, view_enable,
                            projection_enable, mouse_first, mouse_pos_last, yaw,
                            pitch, camera_pos, projection_type,
                            ortho_height_half, fov>>]_vars

\* C13 witness: Q was pressed and the active camera is 1 while the scroll
\* wheel still controls camera 0.
C13_Witness ==
    /\ event.op = "Q"
    /\ camera_active_index = 1
    /\ camera_fov_control_index = 0

\* C13, the other three combinations of the indices
C13_BothZeroAfterSwitches ==
    event.op = "E" /\ camera_active_index = 0 /\ camera_fov_control_index = 0

C13_ControlOnlySwitched ==
    event.op = "E" /\ camera_active_index = 0 /\ camera_fov_control_index = 1

C13_BothSwitched ==
    event.op = "E" /\ camera_active_index = 1 /\ camera_fov_control_index = 1

----------------------------------------------------------------------------
(* Properties of the frame loop. *)

\* the value the lambda of a toggling handler flips
toggled(key) ==
    CASE key = "Q" -> camera_active_index
      [] key = "E" -> camera_fov_control_index
      [] key = "Z" -> projection_type[0]
      [] key = "X" -> projection_type[1]
      [] key = "C" -> view_enable[0]
      [] key = "V" -> view_enable[1]
      [] key = "B" -> projection_enable[0]
      [] key = "N" -> projection_enable[1]
      [] key = "O" -> camera_render_enable[0]
      [] key = "P" -> frustum_render_enable[0]
      [] key = "M" -> camera_render_enable[1]
      [] key = "COMMA" -> frustum_render_enable[1]

\* camera i is at its startup pose
at_reset(i) ==
    /\ yaw[i] = yaw_initial[i]
    /\ pitch[i] = pitch_initial[i]
    /\ camera_pos[i] = camera_pos_initial[i]
    /\ ortho_height_half[i] = ortho_height_half_initial[i]
    /\ fov[i] = fov_initial[i]

\* C12: a call of a debounced handler runs its lambda exactly when the call
\* samples the key pressed and the handler's previous call (if any) sampled
\* it not pressed; so a key held over consecutive frames runs the lambda in
\* the first of them only.
C12_Debounce ==
    [][\A key \in HandlerKeys :
          event'.op = "handler" /\ event'.arg[1] = key
          => LET edge == key \in keys_down /\ ~sampled[key]
             IN  /\ key = "1" => IF edge THEN at_reset(0)'
                                  ELSE UNCHANGED <<data, render>>
                 /\ key = "2" => IF edge THEN at_reset(1)'
                                  ELSE UNCHANGED <<data, render>>
                 /\ key \notin {"1", "2"}
                    => IF edge THEN toggled(key)' # toggled(key)
                       ELSE UNCHANGED <<data, render>>]_vars

\* C12 witness: the handler of Q was called with Q pressed after a call that
\* had sampled Q pressed, too, and the active camera is still the one the
\* first of the two calls switched to.
C12_Witness ==
    /\ event.op = "handler"
    /\ event.arg = <<"Q", TRUE, TRUE>>
    /\ camera_active_index = 1
    /\ ~released["Q"]

\* C15: from the computation of the active camera's view_projection to the
\* last draw call of the iteration the camera state does not change: the
\* handlers and the movement block have run before, the callbacks run inside
\* glfwPollEvents after, so the matrices computed anew for the frustums and
\* the camera pyramids derive from the state view_projection derives from.
C15_FrameSnapshot ==
    /\ [](pc \in {"draw", "swap"} => snapshot = data)
    /\ [][(pc \in {"compute", "draw"}) => UNCHANGED data]_vars
    /\ [][data' # data
          => \/ pc \in HandlerKeys \cup {"move"} /\ snapshot = <<>>
             \/ pc = "poll" /\ pc' = "poll" /\ snapshot = <<>>]_vars

\* C15 witness: the frame is being drawn from a state that a handler (Q),
\* the movement block (W) and callbacks of an earlier glfwPollEvents (cursor
\* and framebuffer size) have all changed.
C15_Witness ==
    /\ pc = "swap"
    /\ snapshot = data
    /\ camera_active_index = 1
    /\ camera_pos[1] # camera_pos_initial[1]
    /\ ~mouse_first
    /\ height = 0

\* C16: the frame loop ends, by leaving the loop or by the end of the
\* process, only from its test and only with the close flag set; the flag
\* is set only by the Escape test sampling Escape pressed or by a close
\* request, never by another key, a cursor, scroll or resize event, and is
\* never cleared; after the Escape test has set it the iteration runs
\* through all its remaining steps, and the next loop test leaves the loop.
C16_LoopEndsOnlyOnQuit ==
    /\ [][pc' \in {"exit", "abort"}
          => pc \in {"test", "exit", "abort"} /\ should_close]_vars
    /\ [][should_close' # should_close
          => /\ should_close'
             /\ \/ pc = "escape" /\ "ESC" \in keys_down
                \/ event'.op = "close"]_vars
    /\ [][should_close /\ pc = "test" => pc' = "exit"]_vars
    /\ [][should_close /\ pc \notin {"test", "exit", "abort"}
          => pc' \notin {"exit", "abort"}]_vars

\* C16, the runtime error that ends the loop without a quit signal: the
\* process has aborted in the frame after a framebuffer-size event, with
\* the close flag clear and Escape not held.
C16_AbortedWithoutQuit ==
    /\ pc = "abort"
    /\ ~should_close
    /\ "ESC" \notin keys_down
    /\ width = 0
    /\ height = 0

\* C16, the iteration that sampled Escape pressed does not run to its end:
\* the process has aborted with the close flag set by the Escape test of
\* the same iteration.
C16_AbortedAfterEscape ==
    /\ pc = "abort"
    /\ should_close
    /\ "ESC" \in keys_down

\* C16, the part that holds: the loop is left only from its test and only
\* with the close flag set; the flag is set only by the Escape test sampling
\* Escape pressed or by a close request and is never cleared; with the flag
\* set no step but the loop test leaves the loop.
C16_LoopExit ==
    /\ [][pc' = "exit" => pc \in {"test", "exit"} /\ should_close]_vars
    /\ [][should_close' # should_close
          => /\ should_close'
             /\ \/ pc = "escape" /\ "ESC" \in keys_down
                \/ event'.op = "close"]_vars
    /\ [][should_close /\ pc = "test" => pc' = "exit"]_vars
    /\ [][should_close /\ pc # "test" => pc' # "exit" \/ pc = "exit"]_vars

\* C16, the loop has been left by its test with the close flag set and
\* Escape held.
C16_Witness ==
    /\ pc = "exit"
    /\ should_close
    /\ "ESC" \in keys_down
    /\ event.op = "test"

\* C16, the other end of a run: the process aborts only where a matrix is
\* computed, on the failing assertion of glm::perspective for a framebuffer
\* of 0 x 0 or of an aspect ratio 2^-23 (the runtime error of C17), and not
\* by leaving the loop.
C16_AbortOnlyByAssertion ==
    [][pc' = "abort" /\ pc # "abort"
       => /\ pc \in {"compute", "draw"}
          /\ <<width, height>> \in {<<0, 0>>, <<1, 8388608>>}
          /\ \E i \in Cameras : projection_asserts(i)]_vars

\* C16, the iteration that sampled Escape pressed is still running: its
\* frame is drawn with the close flag set.
C16_IterationGoesOn ==
    /\ pc = "swap"
    /\ should_close
    /\ "ESC" \in keys_down

\* the fields calculate_projection(i) reads are in their ranges
projection_ranges_valid(i) ==
    /\ near[i] < far[i]
    /\ fov[i] \in fov_min .. fov_max
    /\ ortho_height_half[i] >= ortho_height_half_min

\* C17: in every reachable state the inputs of the projection are valid:
\* near < far, fov and ortho_height_half are in their clamped ranges, and
\* while a frame is drawn with the active camera's projection computed the
\* framebuffer width and height are positive, so that the aspect ratio
\* width / height is a finite positive number.
C17_ProjectionInputsValid ==
    /\ \A i \in Cameras : projection_ranges_valid(i)
    /\ pc = "draw" /\ projection_enable[camera_active_index]
       => width > 0 /\ height > 0

\* C17, the runtime error: the process has aborted on the assertion of
\* glm::perspective while the active camera's projection was computed.
C17_Aborted ==
    /\ pc = "abort"
    /\ event.op = "abort"
    /\ event.arg[1] = camera_active_index
    /\ height = 0

\* C17, the runtime error for a finite positive aspect ratio: the process
\* has aborted on the assertion of glm::perspective with a framebuffer of
\* 1 x 8388608, whose aspect ratio is 2^-23, the epsilon of the assertion.
C17_AbortedOnEpsilon ==
    /\ pc = "abort"
    /\ event.op = "abort"
    /\ width = 1
    /\ height = 8388608

\* C17, the part that holds: near < far, and fov and ortho_height_half are
\* in their clamped ranges.
C17_RangesValid == \A i \in Cameras : projection_ranges_valid(i)

----------------------------------------------------------------------------
(* Properties of the view and projection matrices and of the front vector. *)

\* C14: calculate_view(i) returns exactly the identity matrix whenever
\* view_enable[i] is false, and calculate_projection(i) returns exactly the
\* identity matrix whenever projection_enable[i] is false, whatever the
\* camera's yaw, pitch, position, projection type, fov, ortho_height_half
\* and the framebuffer size are.
C14_DisabledIsIdentity ==
    /\ event.op = "view" /\ ~view_enable[event.arg[1]]
       => event.arg[2] = mat4_identity
    /\ event.op = "projection" /\ ~projection_enable[event.arg[1]]
       => event.arg[2] = mat4_identity

\* C14 witness: calculate_view(0) was called with view 0 disabled while
\* camera 0 was away from its startup pose, looking along +Z and up, and
\* its projection was enabled.
C14_Witness ==
    /\ event.op = "view"
    /\ event.arg[1] = 0
    /\ ~view_enable[0]
    /\ projection_enable[0]
    /\ yaw[0] = 9000
    /\ pitch[0] = 8900
    /\ camera_pos[0] # camera_pos_initial[0]
    /\ event.arg[2] = mat4_identity

\* C14, the projection half: calculate_projection(1) was called with
\* projection 1 disabled, an orthographic camera and a framebuffer of
\* height 0.
C14_WitnessProjection ==
    /\ event.op = "projection"
    /\ event.arg[1] = 1
    /\ ~projection_enable[1]
    /\ projection_type[1] = "orthographic"
    /\ height = 0
    /\ event.arg[2] = mat4_identity

\* C18 as stated: at pitch 0 the front vector is (1, 0, 0) for yaw = 0 and
\* (0, 0, -1) for yaw = 90 deg.
C18_YawTowardsMinusZ ==
    event.op = "front" /\ pitch[event.arg[1]] = 0
    => /\ yaw[event.arg[1]] = 0 => stored(event.arg[2]) = <<1000, 0, 0>>
       /\ yaw[event.arg[1]] = 9000 => stored(event.arg[2]) = <<0, 0, -1000>>

\* C18, what the code computes: at pitch 0 the front vector is (1, 0, 0)
\* for yaw = 0, (0, 0, 1) for yaw = 90 deg and (0, 0, -1) for yaw = -90 deg:
\* yaw turns from +X toward +Z.
C18_YawTowardsPlusZ ==
    event.op = "front" /\ pitch[event.arg[1]] = 0
    => /\ yaw[event.arg[1]] = 0 => stored(event.arg[2]) = <<1000, 0, 0>>
       /\ yaw[event.arg[1]] = 9000 => stored(event.arg[2]) = <<0, 0, 1000>>
       /\ yaw[event.arg[1]] = -9000 => stored(event.arg[2]) = <<0, 0, -1000>>

\* C18, the failing call: calculate_camera_front was called for a camera
\* with yaw = 90 deg and pitch = 0 and returned (0, 0, 1).
C18_Witness ==
    /\ event.op = "front"
    /\ yaw[event.arg[1]] = 9000
    /\ pitch[event.arg[1]] = 0
    /\ stored(event.arg[2]) = <<0, 0, 1000>>

\* two vectors that differ by at most 0.000001 per component
SameVector(a, b) == \A k \in 1 .. 3 : within(a[k], b[k], number(1, -6))

\* C19: calculate_camera_front returns (0, 0, -1) for yaw = -90 deg and
\* pitch = 0, the startup orientation of camera 0, and in general the unit
\* vector (cos(yaw) cos(pitch), sin(pitch), sin(yaw) cos(pitch)).
C19_FrontVector ==
    event.op = "front"
    => LET y == yaw[event.arg[1]]
           p == pitch[event.arg[1]]
           front == event.arg[2]
       IN  /\ y = -9000 /\ p = 0 => SameVector(front, <<zero(1), zero(1), neg(one)>>)
           /\ SameVector(front, <<times(cos(angle(y)), cos(angle(p))),
                                  sin(angle(p)),
                                  times(sin(angle(y)), cos(angle(p)))>>)
           /\ within(length(front), one, number(1, -6))

\* C19 witness: calculate_camera_front(0) was called with camera 0 at its
\* startup yaw and pitch and returned (0, 0, -1).
C19_Witness ==
    /\ event.op = "front"
    /\ event.arg[1] = 0
    /\ yaw[0] = yaw_initial[0]
    /\ pitch[0] = pitch_initial[0]
    /\ SameVector(event.arg[2], <<zero(1), zero(1), neg(one)>>)

\* C19, a pitched sample: yaw = 90 deg and pitch = -30 deg give
\* (0, -0.5, 0.866).
C19_WitnessPitched ==
    /\ event.op = "front"
    /\ yaw[event.arg[1]] = 9000
    /\ pitch[event.arg[1]] = -3000
    /\ stored(event.arg[2]) = <<0, -500, 866>>

\* two clip coordinates that differ by at most 0.00001
SameCoordinate(a, b) == within(a, b, number(1, -5))

\* C20: for an orthographic camera with its projection enabled, h its
\* ortho_height_half and w = h * (width / height), width and height
\* positive, calculate_projection maps the eye-space point (w, h, z) to
\* clip x = 1, y = 1 for every z, the point (-w, -h, z) to clip x = -1,
\* y = -1, depth z = -near to clip z = -1 and depth z = -far to clip z = 1.
C20_OrthoClip ==
    event.op = "clip" /\ width > 0 /\ height > 0
    => LET i == event.arg[1]
           sx == event.arg[2][1]
           sy == event.arg[2][2]
           z == event.arg[2][3]
           clip == event.arg[3]
       IN  /\ SameCoordinate(clip[1], number(sx, 0))
           /\ SameCoordinate(clip[2], number(sy, 0))
           /\ z = -near[i] => SameCoordinate(clip[3], neg(one))
           /\ z = -far[i] => SameCoordinate(clip[3], one)
           /\ clip[4] = one

\* C20 witness: with h = 2 and a framebuffer of 800 x 600 the point
\* (8/3, 2, -5) of camera 0 was mapped to clip x = 1, y = 1.
C20_Witness ==
    /\ event.op = "clip"
    /\ event.arg[1] = 0
    /\ event.arg[2] = <<1, 1, -5000>>
    /\ ortho_height_half[0] = 200
    /\ width = 800
    /\ height = 600
    /\ SameCoordinate(event.arg[3][1], one)
    /\ SameCoordinate(event.arg[3][2], one)

\* C20, the far plane of camera 1: the point (-w, -h, -far) was mapped to
\* clip x = -1, y = -1, z = 1 in a portrait framebuffer.
C20_WitnessFar ==
    /\ event.op = "clip"
    /\ event.arg[1] = 1
    /\ event.arg[2] = <<-1, -1, -far[1]>>
    /\ width < height
    /\ SameCoordinate(event.arg[3][3], one)

\* C20, a framebuffer of 0 x 0: width / height is not a number (the invalid
\* input of C17), and neither are w and the clip coordinates of a corner.
C20_MinimizedNotANumber ==
    /\ event.op = "clip"
    /\ width = 0
    /\ height = 0
    /\ \A k \in 1 .. 4 : isnan(event.arg[3][k])

\* C20, a narrow framebuffer: with 1 x 8388608 the corner (w, h, -near) of
\* camera 0 was mapped to clip x = 1, y = 1, z = -1.
C20_WitnessNarrow ==
    /\ event.op = "clip"
    /\ event.arg[1] = 0
    /\ event.arg[2] = <<1, 1, -near[0]>>
    /\ width = 1
    /\ height = 8388608
    /\ SameCoordinate(event.arg[3][1], one)
    /\ SameCoordinate(event.arg[3][3], neg(one))

----------------------------------------------------------------------------
(* Properties of the frustum rendering. *)

\* the corners of the clip cube
clip_corners ==
    {<<number(x, 0), number(y, 0), number(z, 0), one>> :
        x \in {-1, 1}, y \in {-1, 1}, z \in {-1, 1}}

\* two numbers that differ by at most 0.001
SameFine(a, b) == within(a, b, number(1, -3))

\* C21: the model matrix of camera i's frustum is
\* inverse(view_i) * inverse(projection_i), view_i and projection_i computed
\* from camera i's own state and enable flags: the projection and view of
\* camera i take every corner it gives a clip-cube corner back to that
\* corner; and when i is the active camera the full matrix
\* view_projection * model is the identity.
C21_FrustumTransform ==
    event.op = "frustum" /\ width > 0 /\ height > 0
    => LET i == event.arg[1]
           model == event.arg[2]
           mvp == event.arg[3]
       IN  /\ local(calculate_view(i), LAMBDA camera_view :
              local(calculate_projection(i), LAMBDA camera_projection :
              local(multiply(camera_projection, camera_view),
                    LAMBDA camera_view_projection :
                  \A corner \in clip_corners :
                     local(transform(model, corner), LAMBDA world :
                     local(transform(camera_view_projection, world), LAMBDA back :
                         \A k \in 1 .. 4 : SameFine(back[k], corner[k]))))))
           /\ i = camera_active_index
              => \A c \in 1 .. 4, r \in 1 .. 4 :
                    SameFine(mvp[c][r], mat4_identity[c][r])

\* C21 witness: the frustum of camera 1, the active camera, was computed
\* with its view and its perspective projection enabled, in a pose away
\* from the startup pose, and view_projection * model has 1 on its diagonal.
C21_Witness ==
    /\ event.op = "frustum"
    /\ event.arg[1] = 1
    /\ camera_active_index = 1
    /\ view_enable[1]
    /\ projection_enable[1]
    /\ projection_type[1] = "perspective"
    /\ camera_pos[1] # camera_pos_initial[1]
    /\ yaw[1] = 4500
    /\ pitch[1] = -3000
    /\ \A k \in 1 .. 4 : SameFine(event.arg[3][k][k], one)

\* C21, a frustum of the camera that is not active: camera 1's frustum
\* seen from camera 0, both with view and projection enabled, is not the
\* clip cube.
C21_WitnessOther ==
    /\ event.op = "frustum"
    /\ event.arg[1] = 1
    /\ camera_active_index = 0
    /\ view_enable = [i \in Cameras |-> TRUE]
    /\ projection_enable = [i \in Cameras |-> TRUE]
    /\ ~SameFine(event.arg[3][1][1], one)

----------------------------------------------------------------------------
(* Properties of the cursor callback over sequences of calls. *)

\* C22 as stated: the yaw of each camera stays inside one full turn: it is
\* in [-180 deg, 180 deg) or in [0, 360 deg).
C22_YawWithinOneTurn == \A i \in Cameras : yaw[i] \in -18000 .. 35999

\* C23: a mouse-move call made while the view of the active camera is
\* disabled changes no yaw, pitch, position, fov, orthoHalfHeight or
\* projection type of either camera; the startup state has camera 0 active
\* with its view disabled, and the active view goes from disabled to enabled
\* only by a camera switch (Q) or a view toggle (C, V).
C23_DisabledViewIgnoresMouse ==
    /\ camera_active_index = 0
    /\ view_enable = [i \in Cameras |-> i = 1]
    /\ [][/\ event'.op = "mouse" /\ ~view_enable[camera_active_index]
             => UNCHANGED <<yaw, pitch, camera_pos, fov, ortho_height_half,
                            projection_type>>
          /\ ~view_enable[camera_active_index] /\ view_enable'[camera_active_index']
             => event'.op \in {"Q", "C", "V"}]_vars

\* C23 witness: at startup flags (camera 0 active, its view disabled) a call
\* after the first one reported a position away from the recorded one in
\* both axes, and every camera parameter has its startup value.
C23_Witness ==
    /\ event.op = "mouse"
    /\ ~event.first
    /\ camera_active_index = 0
    /\ view_enable = [i \in Cameras |-> i = 1]
    /\ event.arg[1] # event.last[1]
    /\ event.arg[2] # event.last[2]
    /\ yaw = yaw_initial
    /\ pitch = pitch_initial

\* C24 as stated: after every call of mouse_callback, mouse_pos_last is the
\* position the call reported.
C24_LastIsReported == [][event'.op = "mouse" => mouse_pos_last' = event'.arg]_vars

\* C24, what the code keeps: the call records the reported position when it
\* is the first call or the view of the active camera is enabled, and
\* leaves mouse_pos_last alone otherwise.
C24_LastRecordedWhenApplied ==
    [][event'.op = "mouse"
       => mouse_pos_last' = IF mouse_first \/ view_enable[camera_active_index]
                            THEN event'.arg
                            ELSE mouse_pos_last]_vars

----------------------------------------------------------------------------
(* Properties of the key lambdas. *)

\* the keys bound to reset_camera(i), to the projection switch of camera i
\* and to its two bool switchers
reset_key(i) == IF i = 0 THEN "1" ELSE "2"

projection_switch_key(i) == IF i = 0 THEN "Z" ELSE "X"

view_enable_key(i) == IF i = 0 THEN "C" ELSE "V"

projection_enable_key(i) == IF i = 0 THEN "B" ELSE "N"

ToggleKeys == {"Z", "X", "C", "V", "B", "N"}

\* C25: reset_camera(i) sets yaw, pitch, position, orthoHalfHeight and fov
\* of camera i to the startup values of slot i, whatever the enable flags
\* are, and leaves unchanged the five parameters of the other camera, the
\* projection types, view_enable and projection_enable of both cameras,
\* camera_active_index, camera_fov_control_index and the mouse reference.
C25_ResetEffect ==
    [][\A i \in Cameras :
          event'.op = reset_key(i)
          => /\ yaw'[i] = yaw_initial[i]
             /\ pitch'[i] = pitch_initial[i]
             /\ camera_pos'[i] = camera_pos_initial[i]
             /\ ortho_height_half'[i] = ortho_height_half_initial[i]
             /\ fov'[i] = fov_initial[i]
             /\ yaw'[OtherCamera(i)] = yaw[OtherCamera(i)]
             /\ pitch'[OtherCamera(i)] = pitch[OtherCamera(i)]
             /\ camera_pos'[OtherCamera(i)] = camera_pos[OtherCamera(i)]
             /\ ortho_height_half'[OtherCamera(i)] = ortho_height_half[OtherCamera(i)]
             /\ fov'[OtherCamera(i)] = fov[OtherCamera(i)]
             /\ UNCHANGED <<projection_type, view_enable, projection_enable,
                            camera_active_index, camera_fov_control_index,
                            mouse_first, mouse_pos_last>>]_vars

\* C25 witness: key 1 reset camera 0, which was away from the startup values
\* in all five parameters, while camera 0 was orthographic with its view
\* enabled and camera 1, not at its startup values, was active with its
\* projection disabled.
C25_Witness ==
    /\ event.op = "1"
    /\ event.arg[9][0] # yaw_initial[0]
    /\ event.arg[10][0] # pitch_initial[0]
    /\ event.arg[11][0] # camera_pos_initial[0]
    /\ event.arg[13][0] # ortho_height_half_initial[0]
    /\ event.arg[14][0] # fov_initial[0]
    /\ at_reset(0)
    /\ yaw[1] # yaw_initial[1]
    /\ fov[1] # fov_initial[1]
    /\ projection_type[0] = "orthographic"
    /\ view_enable[0]
    /\ ~projection_enable[1]
    /\ camera_active_index = 1

\* C26: Z / X flip projection_type[0] / [1] between perspective and
\* orthographic, C / V flip view_enable[0] / [1], B / N flip
\* projection_enable[0] / [1], each changing that one variable and nothing
\* else (yaw, pitch, position, fov and orthoHalfHeight of both cameras
\* included); and a toggle fired right after the same toggle gives back the
\* state the first of the two found.
C26_ToggleEffect ==
    [][/\ \A i \in Cameras :
             /\ event'.op = projection_switch_key(i)
                => /\ projection_type' =
                          [projection_type EXCEPT
                              ![i] = IF @ = "perspective" THEN "orthographic"
                                     ELSE "perspective"]
                   /\ UNCHANGED <<width, height, camera_active_index,
                                  camera_fov_control_index, view_enable,
                                  projection_enable, mouse_first, mouse_pos_last,
                                  yaw, pitch, camera_pos, ortho_height_half, fov>>
             /\ event'.op = view_enable_key(i)
                => /\ view_enable' = [view_enable EXCEPT ![i] = ~@]
                   /\ UNCHANGED <<width, height, camera_active_index,
                                  camera_fov_control_index, projection_enable,
                                  mouse_first, mouse_pos_last, yaw, pitch,
                                  camera_pos, projection_type, ortho_height_half,
                                  fov>>
             /\ event'.op = projection_enable_key(i)
                => /\ projection_enable' = [projection_enable EXCEPT ![i] = ~@]
                   /\ UNCHANGED <<width, height, camera_active_index,
                                  camera_fov_control_index, view_enable,
                                  mouse_first, mouse_pos_last, yaw, pitch,
                                  camera_pos, projection_type, ortho_height_half,
                                  fov>>
       /\ \A key \in ToggleKeys :
             event.op = key /\ event'.op = key => data' = event.arg]_vars

\* C26 witness: Z switched camera 0 from orthographic back to perspective
\* (the startup type, so an earlier Z had made it orthographic) and its fov,
\* 1 deg, is the value it had before.
C26_Witness ==
    /\ event.op = "Z"
    /\ event.arg[12][0] = "orthographic"
    /\ projection_type[0] = "perspective"
    /\ event.arg[14][0] = 100
    /\ fov[0] = 100

\* C26, a bool switcher: V switched view_enable[1], off before the press,
\* back on, and both flag arrays are what they were at startup.
C26_WitnessView ==
    /\ event.op = "V"
    /\ ~event.arg[5][1]
    /\ view_enable = [i \in Cameras |-> i = 1]
    /\ projection_enable = [i \in Cameras |-> i = 1]

====
